---- MODULE Spec2Model ----
(***************************************************************************)
(* Model of cozy-stack's session package (model/session): the Session      *)
(* document, its lifetime policy (expiry after SessionMaxAge, last_seen    *)
(* refresh once a day), the signed session cookie, and the enumeration     *)
(* based deletions.  Time is counted in hours.  The CouchDB client         *)
(* (pkg/couchdb), the advisory lock (pkg/lock) and the MAC primitives      *)
(* (pkg/crypto) are collaborators whose code is outside the modelled       *)
(* files; they are modelled from their documented behaviour.               *)
(***************************************************************************)
EXTENDS Integers, Sequences, FiniteSets, TLC

\* ---- bounds of the model ----
MaxIDs == 2        \* number of session documents ever created

\* ---- program constants (hours) ----
SessionMaxAge == 30 * 24
UpdatePeriod == 24

ShortRun == 0
NormalRun == 1
LongRun == 2
Durations == {ShortRun, NormalRun, LongRun}

Procs == {"p1", "p2"}
\* the instants at which the clock is read: the start, the first instant at which
\* a session last seen at the start is due for a refresh, and the last instant at
\* which a session refreshed then has not expired (the older ones have)
Instants == {0, UpdatePeriod + 1, UpdatePeriod + 1 + SessionMaxAge}
IDs == 1..MaxIDs
SIDs == {"", "oidc"}

VARIABLES
    store,     \* the io.cozy.sessions database: a set of Session documents
    nextID,    \* the next document id CouchDB hands out
    now,       \* time.Now(), in hours
    lock,      \* lock[id]: holder of the lock "sessions/"+id, or "none"
    pc,        \* position of each request handler
    op,        \* the exported function the handler called last
    arg,       \* the sessionID / selfSessionID argument of the running call
    sidarg,    \* the sid argument of DeleteBySID
    s,         \* the *Session a call is working on
    lastSeen,  \* the local lastSeen of Get
    tnow,      \* the time Get's OlderThan read from the clock
    list,      \* the sessions slice of DeleteOthers / DeleteBySID, expired of GetAll
    kept,      \* the kept slice of GetAll
    idx,       \* how many elements of list the loop has handled
    cookie,    \* the session cookie the handler's client holds and sends
    ret,       \* what the last call of each handler returned
    updates,   \* history: the last_seen updates the database has accepted
    perms,     \* the io.cozy.permissions database: a set of Permission documents
    nextPID,   \* the next permission document id CouchDB hands out
    ppc,       \* position of each handler inside a function of package permission
    pop,       \* the function of package permission the handler called last
    parg,      \* the arguments and locals of the running permission call
    pret       \* what the last permission call of each handler returned

vars == <<store, nextID, now, lock, pc, op, arg, sidarg, s, lastSeen, tnow,
          list, kept, idx, cookie, ret, updates,
          perms, nextPID, ppc, pop, parg, pret>>

\* the state of package session but the clock, and the state of package permission
sessionState == <<store, nextID, lock, pc, op, arg, sidarg, s, lastSeen, tnow,
                  list, kept, idx, cookie, ret, updates>>
permState == <<perms, nextPID, ppc, pop, parg, pret>>

\* a session whose ShortRun flag is set for every duration but the normal one
SessionShortUnlessNormal(id, rev, t, duration, sid) ==
    [DocID |-> id, DocRev |-> rev, CreatedAt |-> t, LastSeen |-> t,
     LongRun |-> (duration = LongRun), ShortRun |-> (duration # NormalRun),
     SID |-> sid]

\* ---- type Session struct ----
Session(id, rev, t, duration, sid) ==
    [DocID |-> id, DocRev |-> rev, CreatedAt |-> t, LastSeen |-> t,
     LongRun |-> (duration = LongRun), ShortRun |-> (duration = ShortRun),
     SID |-> sid]

\* a nil *Session
NoSession ==
    [DocID |-> 0, DocRev |-> 0, CreatedAt |-> 0, LastSeen |-> 0,
     LongRun |-> FALSE, ShortRun |-> FALSE, SID |-> ""]

\* func (s *Session) Duration() Duration
Duration(sess) ==
    IF sess.LongRun THEN LongRun
    ELSE IF sess.ShortRun THEN ShortRun
    ELSE NormalRun

\* func (s *Session) OlderThan(t time.Duration) bool, with the clock at time t0
OlderThan(sess, t, t0) == t0 > sess.LastSeen + t

\* ---- the CouchDB client ----
\* couchdb.GetDoc: the documents stored under this id (none or one)
GetDoc(id) == {d \in store : d.DocID = id}

\* CouchDB accepts an update or a delete only for the current revision
RevMatches(doc) == \E d \in store : d.DocID = doc.DocID /\ d.DocRev = doc.DocRev

\* the database after couchdb.UpdateDoc(doc) succeeded
UpdateDoc(doc) ==
    {d \in store : d.DocID # doc.DocID} \cup {[doc EXCEPT !.DocRev = doc.DocRev + 1]}

\* the database after couchdb.DeleteDoc(doc): deleted, or an error and no change
DeleteDoc(doc, fail) ==
    IF ~fail /\ RevMatches(doc) THEN {d \in store : d.DocID # doc.DocID} ELSE store

\* couchdb.GetAllDocs / couchdb.ForeachDocs: the documents in the order of their ids
RECURSIVE AllDocs(_, _)
AllDocs(docs, id) ==
    IF id > MaxIDs THEN <<>>
    ELSE (IF \E d \in docs : d.DocID = id
          THEN <<CHOOSE d \in docs : d.DocID = id>> ELSE <<>>)
         \o AllDocs(docs, id + 1)

\* couchdb.BulkDeleteDocs: one request; the documents at their current revision go
BulkDeleteDocs(docs, fail) ==
    IF fail THEN store
    ELSE {d \in store : ~\E i \in 1..Len(docs) :
                            docs[i].DocID = d.DocID /\ docs[i].DocRev = d.DocRev}

\* ---- results ----
\* what a call returned: the error, the session or the sessions, and for Get and
\* FromCookie the session id the call was about
Result(id, err, sess, sessions) ==
    [id |-> id, err |-> err, sess |-> sess, list |-> sessions]
NoResult == Result(0, "nil", NoSession, <<>>)

\* ---- the instance and the session cookie ----
defaultCookieName == "cozysessid"

\* the instance of the requests, and another instance of the same server
Instance == [DBPrefix |-> "alice", SessionSecret |-> "secret-alice", Subdomains |-> "nested"]
OtherInstance == [DBPrefix |-> "bob", SessionSecret |-> "secret-bob", Subdomains |-> "flat"]

\* func CookieName(i *instance.Instance) string
CookieName(i) ==
    IF i.Subdomains = "flat" THEN "sess-" \o i.DBPrefix ELSE defaultCookieName

\* func cookieSessionMACConfig(i *instance.Instance) crypto.MACConfig
cookieSessionMACConfig(i) == [Name |-> CookieName(i), MaxLen |-> 256]

\* the length in bytes of a document id (a UUID in hexadecimal)
IDLen == 32

\* HMAC-SHA256 of the cookie name, the time and the message under a key: only
\* the holder of the key can compute it, and it is equal only for equal inputs
MAC(key, name, value) == [key |-> key, name |-> name, value |-> value]
NoMAC == MAC("", "", 0)

\* the length of base64(time (8 bytes) + message + mac (32 bytes))
EncodedLen(n) == 4 * ((8 + n + 32 + 2) \div 3)

\* a cookie value: the message, its mac, and the length of the encoding
AuthMessage(value, mac, len) == [payload |-> value, mac |-> mac, len |-> len]
EmptyValue == AuthMessage(0, NoMAC, 0)

\* crypto.EncodeAuthMessage(c, key, value, nil): the message and an error flag
EncodeAuthMessage(c, key, value) ==
    LET enc == AuthMessage(value, MAC(key, c.Name, value), EncodedLen(IDLen)) IN
    IF c.MaxLen > 0 /\ enc.len > c.MaxLen
    THEN [err |-> "errMACTooLong", value |-> EmptyValue]
    ELSE [err |-> "nil", value |-> enc]

\* crypto.DecodeAuthMessage(c, key, enc, nil): the message and an error flag
DecodeAuthMessage(c, key, enc) ==
    IF c.MaxLen > 0 /\ enc.len > c.MaxLen
    THEN [err |-> "errMACTooLong", value |-> 0]
    ELSE IF enc.mac # MAC(key, c.Name, enc.payload)
    THEN [err |-> "errMACInvalid", value |-> 0]
    ELSE [err |-> "nil", value |-> enc.payload]

\* an http.Cookie
Cookie(name, value, maxAge) ==
    [Name |-> name, Value |-> value, MaxAge |-> maxAge, Path |-> "/"]

\* a client that holds no cookie
NoCookie == Cookie("", EmptyValue, 0)

\* the values a client can make up: a mac under a key it knows, a mac made for
\* another cookie name or for another message, or an encoding longer than MaxLen
Instances == {Instance, OtherInstance}
ForgedValues ==
    LET c == cookieSessionMACConfig(Instance)
        n == EncodedLen(IDLen)
    IN  {AuthMessage(id, MAC(OtherInstance.SessionSecret, c.Name, id), n) : id \in IDs}
        \cup {AuthMessage(id, MAC(Instance.SessionSecret, CookieName(OtherInstance), id), n) :
                 id \in IDs}
        \cup {AuthMessage(q[1], MAC(Instance.SessionSecret, c.Name, q[2]), n) :
                 q \in {r \in IDs \X IDs : r[1] # r[2]}}
        \cup {AuthMessage(id, MAC(Instance.SessionSecret, c.Name, id), c.MaxLen + 1) :
                 id \in IDs}

\* a loop that counts the kept sessions without moving them to the front
FilterLoopNoMove(sessions, i, k, expired, t0) ==
    LET n == Cardinality({j \in 1..Len(sessions) : ~OlderThan(sessions[j], SessionMaxAge, t0)})
        old == SelectSeq(sessions, LAMBDA d : OlderThan(d, SessionMaxAge, t0))
    IN  [kept |-> SubSeq(sessions, 1, n), expired |-> old]

\* ---- GetAll's loop, lines 592-601: kept shares the array of sessions ----
RECURSIVE FilterLoop(_, _, _, _, _)
FilterLoop(sessions, i, k, expired, t0) ==
    IF i > Len(sessions)
    THEN [kept |-> SubSeq(sessions, 1, k), expired |-> expired]
    ELSE IF OlderThan(sessions[i], SessionMaxAge, t0)
    THEN FilterLoop(sessions, i + 1, k, Append(expired, sessions[i]), t0)
    ELSE FilterLoop([sessions EXCEPT ![k + 1] = sessions[i]], i + 1, k + 1, expired, t0)

\* ---- package permission: rules and sets ----
\* pkg/consts: the doctypes the package names
Apps == "io.cozy.apps"
Konnectors == "io.cozy.konnectors"
Sharings == "io.cozy.sharings"
Files == "io.cozy.files"
Contacts == "io.cozy.contacts"
Sessions == "io.cozy.sessions"

\* the values of Permission.Type
TypeRegister == "register"
TypeWebapp == "app"
TypeKonnector == "konnector"
TypeOauth == "oauth"
TypeCLI == "cli"
TypeShareByLink == "share"
TypeSharePreview == "share-preview"
TypeShareInteract == "share-interact"

\* a Rule; an empty Verbs grants every verb, an empty Values every document
\* the values are document IDs when Selector is NoSelector
NoSelector == ""

Rule(title, type, verbs, values) ==
    [Title |-> title, Type |-> type, Verbs |-> verbs, Values |-> values,
     Selector |-> NoSelector]

\* a Rule whose values are read in the field selector of the documents
RuleBy(title, type, verbs, selector, values) ==
    [Rule(title, type, verbs, values) EXCEPT !.Selector = selector]

\* Rule.isSubSetOf: same type (a rule on files is accepted under any type), the
\* verbs within those of the parent rule (an empty VerbSet is every verb), the
\* parent without values or every value among the parent's, and the same
\* selector or a parent without selector
RuleIsSubSetOf(r, pr) ==
    /\ r.Type = pr.Type \/ r.Type = Files
    /\ pr.Verbs = {} \/ (r.Verbs # {} /\ r.Verbs \subseteq pr.Verbs)
    /\ pr.Values = {} \/ r.Values \subseteq pr.Values
    /\ r.Selector = pr.Selector \/ pr.Selector = NoSelector

\* Set.IsSubSetOf: every rule is within a rule of the parent with its title, or
\* for a rule on files within any rule of the parent
IsSubSetOf(set, parent) ==
    \A i \in DOMAIN set :
        \E j \in DOMAIN parent :
            /\ parent[j].Title = set[i].Title \/ set[i].Type = Files
            /\ RuleIsSubSetOf(set[i], parent[j])

\* MatchType(rule, doctype)
MatchType(r, doctype) == r.Type = doctype

\* CheckWritable(doctype): the doctypes no permission may be given on
NonWritable == {Sessions}
CheckWritable(doctype) == IF doctype \in NonWritable THEN "ErrNotWritable" ELSE "nil"

\* the rules and the sets of the requests
filesRule == Rule("files", Files, {"GET"}, {})
contactsRule == Rule("contacts", Contacts, {"GET"}, {})
contactsWrite == Rule("contacts", Contacts, {"GET", "POST"}, {})
sessionsRule == Rule("sessions", Sessions, {"GET"}, {})

\* the slugs and the sets of the applications
Slugs == {"drive"}
\* the outcomes of the two queries of a lookup by source: the first succeeds, the
\* first fails and the second succeeds, both fail
FailPairs == {<<FALSE, FALSE>>, <<TRUE, FALSE>>, <<TRUE, TRUE>>}
AppSets == {<<contactsRule>>, <<filesRule, contactsWrite>>}

\* the sets a sharing asks for: within the parent and writable, on files and
\* not writable, not writable, not within the parent
ShareSets == {<<contactsRule>>, <<filesRule, sessionsRule>>, <<sessionsRule>>,
              <<contactsWrite>>}
SharingIDs == {"s1"}

\* ---- package permission: errors ----
StatusBadRequest == 400
StatusForbidden == 403
StatusNotFound == 404
StatusConflict == 409

\* an error value: what it says, and its HTTP status when it carries one
Error(name, code) == [name |-> name, code |-> code]
NilError == Error("nil", 0)
\* the error of a request the store has failed
StoreError == Error("store", 0)
\* couchdb.Error{StatusCode: http.StatusNotFound, Name: "not_found"}
NotFoundError == Error("not_found", StatusNotFound)
\* couchdb.Error{StatusCode: http.StatusConflict, Name: "conflict"}
ConflictError == Error("conflict", StatusConflict)
ErrExpiredToken == Error("ErrExpiredToken", 0)
ErrOnlyAppCanCreateSubSet == Error("ErrOnlyAppCanCreateSubSet", 0)
ErrNotSubset == Error("ErrNotSubset", 0)
ErrNotWritable == Error("ErrNotWritable", 0)
\* echo.NewHTTPError(code, msg)
NewHTTPError(code, msg) == Error(msg, code)

\* ---- package permission: type Permission struct ----
Emails == {"alice", "bob"}
Tokens == {"tok1", "tok2"}
Shorts == {"sc1", "sc2"}

\* a map[string]string: a nil map and a map with entries kv
NilMap == [nil |-> TRUE, kv |-> [k \in {} |-> ""]]
MakeMap(kv) == [nil |-> FALSE, kv |-> kv]
Keys(m) == DOMAIN m.kv

\* ExpiresAt interface{}: nil, an RFC3339 string of the time at, or another value
NoExpiry == [kind |-> "nil", at |-> 0]
ExpiresAtTime(at) == [kind |-> "RFC3339", at |-> at]
ExpiresAtOther(kind) == [kind |-> kind, at |-> 0]

Permission(id, rev, typ, sourceID, set, expiresAt, codes, shortcodes) ==
    [Type |-> typ, PID |-> id, PRev |-> rev, SourceID |-> sourceID,
     Permissions |-> set, ExpiresAt |-> expiresAt, Codes |-> codes,
     ShortCodes |-> shortcodes]

\* a nil *Permission
NoPermission == Permission(0, 0, "", "", <<>>, NoExpiry, NilMap, NilMap)

\* Expired that takes a value it cannot read for no expiry
ExpiredFailOpen(p, t0) ==
    IF p.ExpiresAt.kind = "nil" THEN FALSE
    ELSE IF p.ExpiresAt.kind = "RFC3339" THEN p.ExpiresAt.at < t0
    ELSE FALSE

\* func (p *Permission) Expired() bool, with the clock at time t0
Expired(p, t0) ==
    LET isString == p.ExpiresAt.kind \in {"RFC3339", "empty", "unparsable"}
        expiresAt == IF isString THEN p.ExpiresAt.kind ELSE "empty"
    IN  IF p.ExpiresAt.kind = "nil" THEN FALSE
        ELSE IF expiresAt # "empty" /\ expiresAt = "RFC3339"
        THEN p.ExpiresAt.at < t0
        ELSE TRUE

\* what a call of package permission returned
PResult(err, perm, token, docs) ==
    [err |-> err, perm |-> perm, token |-> token, list |-> docs]
NoPResult == PResult(NilError, NoPermission, "", <<>>)

\* the arguments and locals of a call of package permission
PArgs(typ, docType, slug, set, existing) ==
    [typ |-> typ, docType |-> docType, slug |-> slug, set |-> set, existing |-> existing]
NoPArgs == PArgs("", "", "", <<>>, NoPermission)

\* the verbs a VerbSet grants
AllVerbs == {"GET", "POST", "PUT", "PATCH", "DELETE"}
Grants(vs) == IF vs = {} THEN AllVerbs ELSE vs

\* the ids of the documents that are shared, the sets of the sharings and the
\* ids of the requests
DocIDs == {"id1", "id2"}
ByIDSets == {<<Rule("contacts", Contacts, {"GET"}, {"id1"})>>,
             <<Rule("contacts", Contacts, {"POST"}, {"id1", "id2"})>>,
             <<Rule("contacts", Contacts, {}, {"id2"})>>,
             <<Rule("contacts", Contacts, {"GET"}, {"id2"}),
               Rule("again", Contacts, {"PUT"}, {"id2"})>>}
IDLists == {<<"id1">>, <<"id2">>, <<"id1", "id2">>, <<"id2", "id1">>, <<"id3">>}
\* an application that has every verb on every contact
FullParent(typ) ==
    Permission(0, 0, typ, Apps \o "/drive", <<Rule("contacts", Contacts, {}, {})>>,
               NoExpiry, NilMap, NilMap)

\* the rules and the sets that are merged: at most two rules, of different titles
contactsByID == Rule("contacts", Contacts, {"GET"}, {"id1"})
filesWrite == Rule("files", Files, {"GET", "POST"}, {"id2"})
MergeRules == {contactsRule, contactsWrite, contactsByID, filesRule, filesWrite,
               sessionsRule}
MergeSets ==
    {<<>>} \cup {<<r>> : r \in MergeRules}
           \cup {<<r[1], r[2]>> : r \in {q \in MergeRules \X MergeRules :
                                            q[1].Title # q[2].Title}}
Titles == {r.Title : r \in MergeRules}

\* the sets rules are added to and removed from: those that are merged, and
\* sets that have a title twice
RuleSets ==
    MergeSets \cup {<<contactsRule, contactsWrite>>,
                    <<contactsRule, filesRule, contactsWrite>>,
                    <<filesRule, contactsByID, contactsRule>>}

\* the sets compared by IsSubSetOf: rules on contacts with and without verbs,
\* values and selector, and rules on files
SubSetRules ==
    {Rule("contacts", Contacts, vs, ids) :
        vs \in {{}, {"GET"}}, ids \in {{}, {"id1"}, {"id2"}}}
      \cup {RuleBy("contacts", Contacts, {"GET"}, "email", {"id1"}), filesRule,
            Rule("contacts", Files, {"GET"}, {"id1"})}

SubSets ==
    {<<>>, <<contactsRule, sessionsRule>>} \cup {<<r>> : r \in SubSetRules}

PermTypes == {TypeRegister, TypeWebapp, TypeKonnector, TypeOauth, TypeCLI,
              TypeShareByLink, TypeSharePreview, TypeShareInteract}

\* the permissions of who asks for a sharing by link
ParentOf(typ) ==
    Permission(0, 0, typ, Apps \o "/drive", <<contactsRule, sessionsRule>>, NoExpiry,
               NilMap, NilMap)
\* the parents and the sets of the requests that are refused: two parents of
\* an allowed type with different rules, and a sharing by link as parent
ParentWith(typ, set) ==
    Permission(0, 0, typ, Apps \o "/drive", set, NoExpiry, NilMap, NilMap)
RefuseParents ==
    {ParentOf(TypeWebapp), ParentWith(TypeKonnector, <<contactsByID>>),
     ParentOf(TypeShareByLink)}
RefuseSets ==
    {<<contactsRule>>, <<contactsWrite>>, <<contactsWrite, sessionsRule>>,
     <<sessionsRule>>, <<contactsByID>>}
\* the documents that ask to update a sharing by link, of every type, and the
\* documents they ask to update
Updaters ==
    {ParentWith(typ, set) : typ \in PermTypes, set \in {<<contactsRule>>, <<contactsWrite>>}}
Children ==
    {Permission(1, 1, typ, sourceID, set, NoExpiry, NilMap, NilMap) :
        typ \in {TypeShareByLink, TypeSharePreview, TypeWebapp},
        sourceID \in {Apps \o "/drive", Apps \o "/notes"},
        set \in {<<contactsRule>>, <<contactsWrite>>}}
\* the codes and the shortcodes of the requests
CodeMaps == {NilMap, MakeMap([k \in {"alice"} |-> "tok1"]),
             MakeMap([k \in {"bob"} |-> "tok2"])}
ShortcodeMaps == {NilMap, MakeMap([k \in {"alice"} |-> "sc1"]),
                  MakeMap([k \in {"bob"} |-> "sc1"])}
\* the codes and the shortcodes a sharing is created with
CodePairs ==
    <<  <<MakeMap([k \in {"alice"} |-> "tok1"]), MakeMap([k \in {"alice"} |-> "sc1"])>>,
        <<MakeMap([k \in {"alice"} |-> "tok1"]), MakeMap([k \in {"bob"} |-> "sc1"])>>,
        <<MakeMap([k \in {"bob"} |-> "tok2"]), NilMap>>,
        <<NilMap, NilMap>>  >>
\* the expiry of a sharing by link: none, or one UpdatePeriod after the start
Expiries == {NoExpiry, ExpiresAtTime(UpdatePeriod)}
\* the values of ExpiresAt: none, RFC3339 strings of three times, the empty
\* string, a string that is no RFC3339 time, a value that is no string
ExpiryValues ==
    {NoExpiry, ExpiresAtTime(0), ExpiresAtTime(UpdatePeriod + 1),
     ExpiresAtOther("empty"), ExpiresAtOther("unparsable"), ExpiresAtOther("number")}

Init ==
    /\ store = {}
    /\ nextID = 1
    /\ now = 0
    /\ lock = [i \in IDs |-> "none"]
    /\ pc = [p \in Procs |-> "idle"]
    /\ op = [p \in Procs |-> "none"]
    /\ arg = [p \in Procs |-> 0]
    /\ sidarg = [p \in Procs |-> ""]
    /\ s = [p \in Procs |-> NoSession]
    /\ lastSeen = [p \in Procs |-> 0]
    /\ list = [p \in Procs |-> <<>>]
    /\ kept = [p \in Procs |-> <<>>]
    /\ idx = [p \in Procs |-> 0]
    /\ cookie = [p \in Procs |-> NoCookie]
    /\ ret = [p \in Procs |-> NoResult]
    /\ tnow = [p \in Procs |-> 0]
    /\ updates = <<>>
    /\ perms = {}
    /\ nextPID = 1
    /\ ppc = [p \in Procs |-> "idle"]
    /\ pop = [p \in Procs |-> "none"]
    /\ parg = [p \in Procs |-> NoPArgs]
    /\ pret = [p \in Procs |-> NoPResult]

clock == now
locals == <<arg, sidarg, s, lastSeen, tnow, list, kept, idx>>
history == updates

\* a call starts
Call(p, name) ==
    /\ pc[p] = "idle"
    /\ op' = [op EXCEPT ![p] = name]

\* a call returns: its result is left, its locals are gone
Return(p, id, err, sess, sessions) ==
    /\ ret' = [ret EXCEPT ![p] = Result(id, err, sess, sessions)]
    /\ pc' = [pc EXCEPT ![p] = "idle"]
    /\ arg' = [arg EXCEPT ![p] = 0]
    /\ sidarg' = [sidarg EXCEPT ![p] = ""]
    /\ s' = [s EXCEPT ![p] = NoSession]
    /\ lastSeen' = [lastSeen EXCEPT ![p] = 0]
    /\ tnow' = [tnow EXCEPT ![p] = 0]
    /\ list' = [list EXCEPT ![p] = <<>>]
    /\ kept' = [kept EXCEPT ![p] = <<>>]
    /\ idx' = [idx EXCEPT ![p] = 0]

\* a call goes on to its next step with these locals
Goto(p, label, id, sid, sess, sessions, keptSessions) ==
    /\ ret' = [ret EXCEPT ![p] = NoResult]
    /\ pc' = [pc EXCEPT ![p] = label]
    /\ arg' = [arg EXCEPT ![p] = id]
    /\ sidarg' = [sidarg EXCEPT ![p] = sid]
    /\ s' = [s EXCEPT ![p] = sess]
    /\ list' = [list EXCEPT ![p] = sessions]
    /\ kept' = [kept EXCEPT ![p] = keptSessions]
    /\ tnow' = [tnow EXCEPT ![p] = now]
    /\ UNCHANGED <<lastSeen, idx>>

\* the clock advances to a later instant
Tick(t) ==
    /\ t > now
    /\ now' = t
    /\ UNCHANGED <<store, nextID, lock, pc, op, locals, cookie, ret>>
    /\ UNCHANGED <<history, permState>>

\* func New(i, duration, sid): the document is created, or CreateDoc fails
New(p, duration, sid, fail) ==
    /\ nextID <= MaxIDs
    /\ Call(p, "New")
    /\ IF fail
       THEN /\ Return(p, 0, "ErrStore", NoSession, <<>>)
            /\ UNCHANGED <<store, nextID>>
       ELSE LET doc == Session(nextID, 1, now, duration, sid) IN
            /\ store' = store \cup {doc}
            /\ nextID' = nextID + 1
            /\ Return(p, 0, "nil", doc, <<>>)
    /\ UNCHANGED <<clock, lock, cookie>>
    /\ UNCHANGED <<history, permState>>

\* Get with the two age checks in the other order
GetFetchRefreshFirst(p, sessionID, fail) ==
    /\ IF fail
       THEN Return(p, sessionID, "ErrStore", NoSession, <<>>)
       ELSE IF GetDoc(sessionID) = {}
       THEN Return(p, sessionID, "ErrInvalidID", NoSession, <<>>)
       ELSE LET doc == CHOOSE d \in GetDoc(sessionID) : TRUE IN
            IF OlderThan(doc, UpdatePeriod, now)
            THEN Goto(p, "GetRefreshLock", sessionID, "", doc, <<>>, <<>>)
            ELSE IF OlderThan(doc, SessionMaxAge, now)
            THEN Goto(p, "GetExpireLock", sessionID, "", doc, <<>>, <<>>)
            ELSE Return(p, sessionID, "nil", doc, <<>>)
    /\ UNCHANGED <<store, nextID, clock, lock, cookie>>
    /\ UNCHANGED <<history, permState>>

\* Get that hands back the not-found error of the store as it is
GetFetchNotFoundAsIs(p, sessionID, fail) ==
    /\ IF fail
       THEN Return(p, sessionID, "ErrStore", NoSession, <<>>)
       ELSE IF GetDoc(sessionID) = {}
       THEN Return(p, sessionID, "ErrStore", NoSession, <<>>)
       ELSE LET doc == CHOOSE d \in GetDoc(sessionID) : TRUE IN
            IF OlderThan(doc, SessionMaxAge, now)
            THEN Goto(p, "GetExpireLock", sessionID, "", doc, <<>>, <<>>)
            ELSE IF OlderThan(doc, UpdatePeriod, now)
            THEN Goto(p, "GetRefreshLock", sessionID, "", doc, <<>>, <<>>)
            ELSE Return(p, sessionID, "nil", doc, <<>>)
    /\ UNCHANGED <<store, nextID, clock, lock, cookie>>
    /\ UNCHANGED <<history, permState>>

\* func Get, lines 502-514 and 530: the fetch and the two age checks
GetFetch(p, sessionID, fail) ==
    /\ IF fail
       THEN Return(p, sessionID, "ErrStore", NoSession, <<>>)
       ELSE IF GetDoc(sessionID) = {}
       THEN Return(p, sessionID, "ErrInvalidID", NoSession, <<>>)
       ELSE LET doc == CHOOSE d \in GetDoc(sessionID) : TRUE IN
            IF OlderThan(doc, SessionMaxAge, now)
            THEN Goto(p, "GetExpireLock", sessionID, "", doc, <<>>, <<>>)
            ELSE IF OlderThan(doc, UpdatePeriod, now)
            THEN Goto(p, "GetRefreshLock", sessionID, "", doc, <<>>, <<>>)
            ELSE Return(p, sessionID, "nil", doc, <<>>)
    /\ UNCHANGED <<store, nextID, clock, lock, cookie>>
    /\ UNCHANGED <<history, permState>>

\* func Get(i, sessionID)
Get(p, sessionID, fail) ==
    /\ Call(p, "Get")
    /\ GetFetch(p, sessionID, fail)

\* func lockSession: mu.Lock() blocks until the lock is free
lockSession(p, sessionID) ==
    /\ lock[sessionID] = "none"
    /\ lock' = [lock EXCEPT ![sessionID] = p]

\* the deferred mu.Unlock
unlockSession(p, sessionID) ==
    lock' = [lock EXCEPT ![sessionID] = "none"]

\* Get, line 515: defer lockSession(i, sessionID)()
GetExpireLock(p) ==
    /\ pc[p] = "GetExpireLock"
    /\ lockSession(p, arg[p])
    /\ pc' = [pc EXCEPT ![p] = "GetExpireDelete"]
    /\ UNCHANGED <<store, nextID, clock, op, locals, cookie, ret>>
    /\ UNCHANGED <<history, permState>>

\* Get, lines 516-523: delete the expired session, a failure is only logged
GetExpireDelete(p, fail) ==
    /\ pc[p] = "GetExpireDelete"
    /\ store' = DeleteDoc(s[p], fail)
    /\ pc' = [pc EXCEPT ![p] = "GetExpireReturn"]
    /\ UNCHANGED <<nextID, clock, lock, op, locals, cookie, ret>>
    /\ UNCHANGED <<history, permState>>

\* Get that returns from the expiry without the deferred unlock
GetExpireReturnKeepsLock(p) ==
    /\ pc[p] = "GetExpireReturn"
    /\ Return(p, arg[p], "ErrExpired", NoSession, <<>>)
    /\ UNCHANGED <<store, nextID, clock, lock, op, cookie, updates>>
    /\ UNCHANGED permState

\* Get, line 524: return nil, ErrExpired (and the deferred unlock)
GetExpireReturn(p) ==
    /\ pc[p] = "GetExpireReturn"
    /\ unlockSession(p, arg[p])
    /\ Return(p, arg[p], "ErrExpired", NoSession, <<>>)
    /\ UNCHANGED <<store, nextID, clock, op, cookie, updates>>
    /\ UNCHANGED permState

\* Get that updates LastSeen without taking the lock
GetRefreshLockNone(p) ==
    /\ pc[p] = "GetRefreshLock"
    /\ pc' = [pc EXCEPT ![p] = "GetRefreshUpdate"]
    /\ UNCHANGED <<store, nextID, clock, lock, op, locals, cookie, ret>>
    /\ UNCHANGED <<history, permState>>

\* Get, line 531: defer lockSession(i, sessionID)()
GetRefreshLock(p) ==
    /\ pc[p] = "GetRefreshLock"
    /\ lockSession(p, arg[p])
    /\ pc' = [pc EXCEPT ![p] = "GetRefreshUpdate"]
    /\ UNCHANGED <<store, nextID, clock, op, locals, cookie, ret>>
    /\ UNCHANGED <<history, permState>>

\* Get whose update is accepted whatever the revision it has fetched
GetRefreshUpdateAnyRevision(p, fail) ==
    /\ pc[p] = "GetRefreshUpdate"
    /\ lastSeen' = [lastSeen EXCEPT ![p] = s[p].LastSeen]
    /\ LET upd == [s[p] EXCEPT !.LastSeen = now] IN
       IF ~fail
       THEN /\ store' = {d \in store : d.DocID # upd.DocID}
                            \cup {[upd EXCEPT !.DocRev = upd.DocRev + 1]}
            /\ s' = [s EXCEPT ![p] = [upd EXCEPT !.DocRev = upd.DocRev + 1]]
            /\ updates' = Append(updates, [id |-> upd.DocID, rev |-> upd.DocRev, at |-> now])
       ELSE /\ s' = [s EXCEPT ![p] = [upd EXCEPT !.LastSeen = s[p].LastSeen]]
            /\ UNCHANGED <<store, updates>>
    /\ pc' = [pc EXCEPT ![p] = "GetRefreshReturn"]
    /\ UNCHANGED permState
    /\ UNCHANGED <<nextID, clock, lock, op, arg, sidarg, tnow, list, kept, idx, cookie,
                   ret>>

\* Get that keeps the new LastSeen when the update has failed
GetRefreshUpdateNoRollback(p, fail) ==
    /\ pc[p] = "GetRefreshUpdate"
    /\ lastSeen' = [lastSeen EXCEPT ![p] = s[p].LastSeen]
    /\ LET upd == [s[p] EXCEPT !.LastSeen = now] IN
       IF ~fail /\ RevMatches(upd)
       THEN /\ store' = UpdateDoc(upd)
            /\ s' = [s EXCEPT ![p] = [upd EXCEPT !.DocRev = upd.DocRev + 1]]
            /\ updates' = Append(updates, [id |-> upd.DocID, rev |-> upd.DocRev, at |-> now])
       ELSE /\ s' = [s EXCEPT ![p] = upd]
            /\ UNCHANGED <<store, updates>>
    /\ pc' = [pc EXCEPT ![p] = "GetRefreshReturn"]
    /\ UNCHANGED permState
    /\ UNCHANGED <<nextID, clock, lock, op, arg, sidarg, tnow, list, kept, idx, cookie,
                   ret>>

\* Get, lines 532-537: set LastSeen, update the document, roll back on error
GetRefreshUpdate(p, fail) ==
    /\ pc[p] = "GetRefreshUpdate"
    /\ lastSeen' = [lastSeen EXCEPT ![p] = s[p].LastSeen]
    /\ LET upd == [s[p] EXCEPT !.LastSeen = now] IN
       IF ~fail /\ RevMatches(upd)
       THEN /\ store' = UpdateDoc(upd)
            /\ s' = [s EXCEPT ![p] = [upd EXCEPT !.DocRev = upd.DocRev + 1]]
            /\ updates' = Append(updates, [id |-> upd.DocID, rev |-> upd.DocRev, at |-> now])
       ELSE /\ s' = [s EXCEPT ![p] = [upd EXCEPT !.LastSeen = s[p].LastSeen]]
            /\ UNCHANGED <<store, updates>>
    /\ pc' = [pc EXCEPT ![p] = "GetRefreshReturn"]
    /\ UNCHANGED permState
    /\ UNCHANGED <<nextID, clock, lock, op, arg, sidarg, tnow, list, kept, idx, cookie,
                   ret>>

\* Get that returns the error of the store when the update has failed
GetRefreshReturnFatal(p) ==
    /\ pc[p] = "GetRefreshReturn"
    /\ unlockSession(p, arg[p])
    /\ IF s[p].LastSeen = lastSeen[p]
       THEN Return(p, arg[p], "ErrStore", NoSession, <<>>)
       ELSE Return(p, arg[p], "nil", s[p], <<>>)
    /\ UNCHANGED <<store, nextID, clock, op, cookie>>
    /\ UNCHANGED <<history, permState>>

\* Get, line 540: return s, nil (and the deferred unlock)
GetRefreshReturn(p) ==
    /\ pc[p] = "GetRefreshReturn"
    /\ unlockSession(p, arg[p])
    /\ Return(p, arg[p], "nil", s[p], <<>>)
    /\ UNCHANGED <<store, nextID, clock, op, cookie>>
    /\ UNCHANGED <<history, permState>>

\* ---- the cookie protocol ----
\* the values ToCookie can issue for the instance
IssuedValues ==
    {EncodeAuthMessage(cookieSessionMACConfig(Instance), Instance.SessionSecret, id).value :
        id \in IDs}

\* the cookies a client can send without having been given them by ToCookie: none,
\* an empty or a forged one, or an issued value under the name of another cookie
ClientCookies ==
    {NoCookie}
    \cup {Cookie(CookieName(Instance), v, 0) : v \in ForgedValues \cup {EmptyValue}}
    \cup {Cookie(CookieName(OtherInstance), v, 0) : v \in IssuedValues}

\* the client drops or rewrites the cookie it sends
Tamper(p, c) ==
    /\ pc[p] = "idle"
    /\ cookie' = [cookie EXCEPT ![p] = c]
    /\ UNCHANGED <<store, nextID, clock, lock, pc, op, locals, ret>>
    /\ UNCHANGED <<history, permState>>

\* FromCookie that takes the session id of a cookie whose mac is wrong
FromCookieNoVerify(p, fail) ==
    LET c == cookie[p] IN
        /\ Call(p, "FromCookie")
        /\ IF c.Name # CookieName(Instance) \/ c.Value = EmptyValue
           THEN /\ Return(p, 0, "ErrNoCookie", NoSession, <<>>)
                /\ UNCHANGED <<store, nextID, clock, lock, cookie, history, permState>>
           ELSE GetFetch(p, c.Value.payload, fail)

\* FromCookie that hands an empty cookie value to the decoder
FromCookieNoEmptyCheck(p, fail) ==
    LET c == cookie[p]
        dec == DecodeAuthMessage(cookieSessionMACConfig(Instance),
                                 Instance.SessionSecret, c.Value)
    IN  /\ Call(p, "FromCookie")
        /\ IF c.Name # CookieName(Instance)
           THEN /\ Return(p, 0, "ErrNoCookie", NoSession, <<>>)
                /\ UNCHANGED <<store, nextID, clock, lock, cookie, history, permState>>
           ELSE IF dec.err # "nil"
           THEN /\ Return(p, 0, dec.err, NoSession, <<>>)
                /\ UNCHANGED <<store, nextID, clock, lock, cookie, history, permState>>
           ELSE GetFetch(p, dec.value, fail)

\* func FromCookie(c, i): the request of handler p carries the client's cookie
FromCookie(p, fail) ==
    LET c == cookie[p]
        dec == DecodeAuthMessage(cookieSessionMACConfig(Instance),
                                 Instance.SessionSecret, c.Value)
    IN  /\ Call(p, "FromCookie")
        /\ IF c.Name # CookieName(Instance) \/ c.Value = EmptyValue
           THEN /\ Return(p, 0, "ErrNoCookie", NoSession, <<>>)
                /\ UNCHANGED <<store, nextID, clock, lock, cookie, history, permState>>
           ELSE IF dec.err # "nil"
           THEN /\ Return(p, 0, dec.err, NoSession, <<>>)
                /\ UNCHANGED <<store, nextID, clock, lock, cookie, history, permState>>
           ELSE GetFetch(p, dec.value, fail)

\* a MaxAge of five seconds for the short sessions
MaxAgeFiveSeconds(sess) ==
    IF sess.LongRun THEN 10 * 365 * 24 * 3600
    ELSE IF sess.ShortRun THEN 5
    ELSE 0

\* ToCookie, lines 639-644
MaxAge(sess) ==
    IF sess.LongRun THEN 10 * 365 * 24 * 3600
    ELSE IF sess.ShortRun THEN 5 * 60
    ELSE 0

\* func (s *Session) ToCookie(), on the session the handler got from New or Get;
\* the response gives the cookie to the client
ToCookie(p) ==
    LET sess == ret[p].sess
        enc == EncodeAuthMessage(cookieSessionMACConfig(Instance),
                                 Instance.SessionSecret, sess.DocID)
    IN  /\ sess # NoSession
        /\ Call(p, "ToCookie")
        /\ IF enc.err # "nil"
           THEN UNCHANGED cookie
           ELSE cookie' = [cookie EXCEPT ![p] =
                              Cookie(CookieName(Instance), enc.value, MaxAge(sess))]
        /\ Return(p, 0, enc.err, sess, <<>>)
        /\ UNCHANGED <<store, nextID, clock, lock>>
        /\ UNCHANGED <<history, permState>>

\* func (s *Session) Delete(i), lines 614-621: the database afterwards
SessionDelete(sess, fail) == DeleteDoc(sess, fail)

\* func (s *Session) Delete(i), on the session the handler got from New or Get;
\* the response gives the clearing cookie to the client
Delete(p, fail) ==
    LET sess == ret[p].sess IN
    /\ sess # NoSession
    /\ Call(p, "Delete")
    /\ store' = SessionDelete(sess, fail)
    /\ cookie' = [cookie EXCEPT ![p] = Cookie(CookieName(Instance), EmptyValue, -1)]
    /\ Return(p, 0, "nil", NoSession, <<>>)
    /\ UNCHANGED <<nextID, clock, lock>>
    /\ UNCHANGED <<history, permState>>

\* ---- enumerations ----
\* func GetAll, lines 585-601: fetch all the sessions and partition them
GetAll(p, fail) ==
    /\ Call(p, "GetAll")
    /\ IF fail
       THEN Return(p, 0, "ErrStore", NoSession, <<>>)
       ELSE LET part == FilterLoop(AllDocs(store, 1), 1, 0, <<>>, now) IN
            IF Len(part.expired) > 0
            THEN Goto(p, "GetAllBulkDelete", 0, "", NoSession, part.expired, part.kept)
            ELSE Return(p, 0, "nil", NoSession, part.kept)
    /\ UNCHANGED <<store, nextID, clock, lock, cookie>>
    /\ UNCHANGED <<history, permState>>

\* GetAll, lines 602-608: delete the expired sessions, a failure is only logged
GetAllBulkDelete(p, fail) ==
    /\ pc[p] = "GetAllBulkDelete"
    /\ store' = BulkDeleteDocs(list[p], fail)
    /\ Return(p, 0, "nil", NoSession, kept[p])
    /\ UNCHANGED <<nextID, clock, lock, op, cookie>>
    /\ UNCHANGED <<history, permState>>

\* func DeleteOthers, lines 660-671: enumerate the sessions
DeleteOthers(p, selfSessionID, fail) ==
    /\ Call(p, "DeleteOthers")
    /\ IF fail
       THEN Return(p, 0, "ErrStore", NoSession, <<>>)
       ELSE Goto(p, "DeleteOthersLoop", selfSessionID, "", NoSession,
                 AllDocs(store, 1), <<>>)
    /\ UNCHANGED <<store, nextID, clock, lock, cookie>>
    /\ UNCHANGED <<history, permState>>

\* DeleteOthers, lines 672-676: one iteration of the loop
DeleteOthersLoop(p, fail) ==
    /\ pc[p] = "DeleteOthersLoop"
    /\ idx[p] < Len(list[p])
    /\ LET sess == list[p][idx[p] + 1] IN
       store' = IF sess.DocID # arg[p] THEN SessionDelete(sess, fail) ELSE store
    /\ idx' = [idx EXCEPT ![p] = idx[p] + 1]
    /\ UNCHANGED <<nextID, clock, lock, pc, op, arg, sidarg, s, lastSeen, tnow, list,
                   kept, cookie, ret>>
    /\ UNCHANGED <<history, permState>>

\* DeleteOthers, line 677: return nil
DeleteOthersReturn(p) ==
    /\ pc[p] = "DeleteOthersLoop"
    /\ idx[p] = Len(list[p])
    /\ Return(p, 0, "nil", NoSession, <<>>)
    /\ UNCHANGED <<store, nextID, clock, lock, op, cookie>>
    /\ UNCHANGED <<history, permState>>

\* func DeleteBySID, line 683: ForeachDocs enumerates the sessions
DeleteBySID(p, sid, fail) ==
    /\ Call(p, "DeleteBySID")
    /\ IF fail
       THEN Return(p, 0, "ErrStore", NoSession, <<>>)
       ELSE Goto(p, "DeleteBySIDLoop", 0, sid, NoSession, AllDocs(store, 1), <<>>)
    /\ UNCHANGED <<store, nextID, clock, lock, cookie>>
    /\ UNCHANGED <<history, permState>>

\* DeleteBySID, lines 683-692: the callback on one document
DeleteBySIDLoop(p, fail) ==
    /\ pc[p] = "DeleteBySIDLoop"
    /\ idx[p] < Len(list[p])
    /\ LET sess == list[p][idx[p] + 1] IN
       store' = IF sess.SID = sidarg[p] THEN SessionDelete(sess, fail) ELSE store
    /\ idx' = [idx EXCEPT ![p] = idx[p] + 1]
    /\ UNCHANGED <<nextID, clock, lock, pc, op, arg, sidarg, s, lastSeen, tnow, list,
                   kept, cookie, ret>>
    /\ UNCHANGED <<history, permState>>

\* DeleteBySID: ForeachDocs returns nil
DeleteBySIDReturn(p) ==
    /\ pc[p] = "DeleteBySIDLoop"
    /\ idx[p] = Len(list[p])
    /\ Return(p, 0, "nil", NoSession, <<>>)
    /\ UNCHANGED <<store, nextID, clock, lock, op, cookie>>
    /\ UNCHANGED <<history, permState>>

\* ---- package permission: the CouchDB client ----
PIDs == 1..MaxIDs
\* the highest revision a document gets
MaxRev == MaxIDs + 1

\* the documents of a set in the order of their ids
RECURSIVE PermDocs(_, _)
PermDocs(docs, id) ==
    IF id > MaxIDs THEN <<>>
    ELSE (IF \E d \in docs : d.PID = id
          THEN <<CHOOSE d \in docs : d.PID = id>> ELSE <<>>)
         \o PermDocs(docs, id + 1)

\* couchdb.FindDocs on the index by-source-and-type, with the Limit of the request
FindDocs(typ, sourceID, limit) ==
    LET rows == PermDocs({d \in perms : d.Type = typ /\ d.SourceID = sourceID}, 1)
    IN  IF Len(rows) > limit THEN SubSeq(rows, 1, limit) ELSE rows

\* couchdb.CreateDoc: the document gets its id and its first revision
CreatedDoc(doc) == [doc EXCEPT !.PID = nextPID, !.PRev = 1]

\* couchdb.UpdateDoc / couchdb.DeleteDoc accept the current revision only
PermRevMatches(doc) == \E d \in perms : d.PID = doc.PID /\ d.PRev = doc.PRev
UpdatedDoc(doc) == [doc EXCEPT !.PRev = doc.PRev + 1]

\* ---- package permission: calls ----
PCall(h, name) ==
    /\ ppc[h] = "idle"
    /\ pop' = [pop EXCEPT ![h] = name]

PReturn(h, err, perm, token, docs) ==
    /\ pret' = [pret EXCEPT ![h] = PResult(err, perm, token, docs)]
    /\ ppc' = [ppc EXCEPT ![h] = "idle"]
    /\ parg' = [parg EXCEPT ![h] = NoPArgs]

\* a return that leaves the arguments of the call in sight of the caller
PReturnArgs(h, args, err, perm, token, docs) ==
    /\ pret' = [pret EXCEPT ![h] = PResult(err, perm, token, docs)]
    /\ ppc' = [ppc EXCEPT ![h] = "idle"]
    /\ parg' = [parg EXCEPT ![h] = args]

PGoto(h, label, args) ==
    /\ pret' = [pret EXCEPT ![h] = NoPResult]
    /\ ppc' = [ppc EXCEPT ![h] = label]
    /\ parg' = [parg EXCEPT ![h] = args]

\* ---- lookups by source ----
\* func getFromSource: the query, once more when it fails, the first row
getFromSource(typ, docType, slug, fail1, fail2) ==
    LET res == FindDocs(typ, docType \o "/" \o slug, 1) IN
    IF fail1 /\ fail2 THEN PResult(StoreError, NoPermission, "", <<>>)
    ELSE IF Len(res) = 0 THEN PResult(NotFoundError, NoPermission, "", <<>>)
    ELSE IF Expired(res[1], now) THEN PResult(ErrExpiredToken, NoPermission, "", <<>>)
    ELSE PResult(NilError, res[1], "", <<>>)

\* a lookup by source as a call of handler h
GetFor(h, name, typ, docType, slug, fail1, fail2) ==
    LET r == getFromSource(typ, docType, slug, fail1, fail2) IN
    /\ PCall(h, name)
    /\ PReturn(h, r.err, r.perm, "", <<>>)
    /\ UNCHANGED <<perms, nextPID, now, sessionState>>

GetForWebapp(h, slug, fail1, fail2) ==
    GetFor(h, "GetForWebapp", TypeWebapp, Apps, slug, fail1, fail2)

GetForKonnector(h, slug, fail1, fail2) ==
    GetFor(h, "GetForKonnector", TypeKonnector, Konnectors, slug, fail1, fail2)

GetForSharePreview(h, sharingID, fail1, fail2) ==
    GetFor(h, "GetForSharePreview", TypeSharePreview, Sharings, sharingID, fail1, fail2)

GetForShareInteract(h, sharingID, fail1, fail2) ==
    GetFor(h, "GetForShareInteract", TypeShareInteract, Sharings, sharingID, fail1, fail2)

\* ---- lookups by source, query by query ----
\* getFromSource that also asks again when the first query returns no row
getFromSourceQueryRetryEmpty(h, name, typ, docType, slug, fail) ==
    /\ PCall(h, name)
    /\ IF fail \/ Len(FindDocs(typ, docType \o "/" \o slug, 1)) = 0
       THEN PGoto(h, "getFromSourceRetry", PArgs(typ, docType, slug, <<>>, NoPermission))
       ELSE LET r == getFromSource(typ, docType, slug, FALSE, FALSE)
            IN  PReturn(h, r.err, r.perm, "", <<>>)
    /\ UNCHANGED <<perms, nextPID, now, sessionState>>

\* getFromSource, the first couchdb.FindDocs: when it fails the handler sleeps
\* and asks again, otherwise it returns what the rows give
getFromSourceQuery(h, name, typ, docType, slug, fail) ==
    /\ PCall(h, name)
    /\ IF fail
       THEN PGoto(h, "getFromSourceRetry", PArgs(typ, docType, slug, <<>>, NoPermission))
       ELSE LET r == getFromSource(typ, docType, slug, FALSE, FALSE)
            IN  PReturn(h, r.err, r.perm, "", <<>>)
    /\ UNCHANGED <<perms, nextPID, now, sessionState>>

\* getFromSource, the second couchdb.FindDocs, after time.Sleep: its error is
\* returned, otherwise what its rows give
getFromSourceRetry(h, fail) ==
    LET a == parg[h]
        r == getFromSource(a.typ, a.docType, a.slug, fail, fail)
    IN  /\ ppc[h] = "getFromSourceRetry"
        /\ PReturn(h, r.err, r.perm, "", <<>>)
        /\ UNCHANGED <<pop, perms, nextPID, now, sessionState>>

\* ---- the permissions of the applications ----
\* CreateWebappSet / CreateKonnectorSet up to the call of createAppSet: the error
\* of the lookup is dropped
CreateAppCheck(h, name, typ, docType, slug, set, fail1, fail2) ==
    LET existing == getFromSource(typ, docType, slug, fail1, fail2).perm IN
    /\ PCall(h, name)
    /\ IF existing # NoPermission
       THEN PReturn(h, Error("There is already a permission doc", 0), NoPermission, "", <<>>)
       ELSE PGoto(h, "createAppSet", PArgs(typ, docType, slug, set, NoPermission))
    /\ UNCHANGED <<perms, nextPID, now, sessionState>>

CreateWebappSet(h, slug, set, fail1, fail2) ==
    CreateAppCheck(h, "CreateWebappSet", TypeWebapp, Apps, slug, set, fail1, fail2)

CreateKonnectorSet(h, slug, set, fail1, fail2) ==
    CreateAppCheck(h, "CreateKonnectorSet", TypeKonnector, Konnectors, slug, set, fail1, fail2)

\* func createAppSet
createAppSet(h, fail) ==
    LET a == parg[h]
        doc == CreatedDoc(Permission(0, 0, a.typ, a.docType \o "/" \o a.slug, a.set,
                                     NoExpiry, NilMap, NilMap))
    IN  /\ ppc[h] = "createAppSet"
        /\ nextPID <= MaxIDs
        /\ IF fail
           THEN /\ PReturn(h, StoreError, NoPermission, "", <<>>)
                /\ UNCHANGED <<perms, nextPID>>
           ELSE /\ perms' = perms \cup {doc}
                /\ nextPID' = nextPID + 1
                /\ PReturn(h, NilError, doc, "", <<>>)
        /\ UNCHANGED <<pop, now, sessionState>>

\* ForceWebapp / ForceKonnector, the lookup: its error is dropped
ForceAppCheck(h, name, typ, docType, slug, set, fail1, fail2) ==
    LET existing == getFromSource(typ, docType, slug, fail1, fail2).perm IN
    /\ PCall(h, name)
    /\ PGoto(h, IF existing = NoPermission THEN "forceCreate" ELSE "forceUpdate",
             PArgs(typ, docType, slug, set, existing))
    /\ UNCHANGED <<perms, nextPID, now, sessionState>>

ForceWebapp(h, slug, set, fail1, fail2) ==
    ForceAppCheck(h, "ForceWebapp", TypeWebapp, Apps, slug, set, fail1, fail2)

ForceKonnector(h, slug, set, fail1, fail2) ==
    ForceAppCheck(h, "ForceKonnector", TypeKonnector, Konnectors, slug, set, fail1, fail2)

\* ForceWebapp / ForceKonnector: return couchdb.CreateDoc(db, doc)
ForceCreate(h, fail) ==
    LET a == parg[h]
        doc == CreatedDoc(Permission(0, 0, a.typ, a.docType \o "/" \o a.slug, a.set,
                                     NoExpiry, NilMap, NilMap))
    IN  /\ ppc[h] = "forceCreate"
        /\ nextPID <= MaxIDs
        /\ IF fail
           THEN /\ PReturn(h, StoreError, NoPermission, "", <<>>)
                /\ UNCHANGED <<perms, nextPID>>
           ELSE /\ perms' = perms \cup {doc}
                /\ nextPID' = nextPID + 1
                /\ PReturn(h, NilError, NoPermission, "", <<>>)
        /\ UNCHANGED <<pop, now, sessionState>>

\* ForceWebapp / ForceKonnector: the new document under the id and the revision
\* of the existing one, return couchdb.UpdateDoc(db, doc)
ForceUpdate(h, fail) ==
    LET a == parg[h]
        doc == Permission(a.existing.PID, a.existing.PRev, a.typ,
                          a.docType \o "/" \o a.slug, a.set, NoExpiry, NilMap, NilMap)
    IN  /\ ppc[h] = "forceUpdate"
        /\ a.existing.PRev < MaxRev
        /\ IF fail \/ ~PermRevMatches(doc)
           THEN /\ PReturn(h, StoreError, NoPermission, "", <<>>)
                /\ UNCHANGED perms
           ELSE /\ perms' = {d \in perms : d.PID # doc.PID} \cup {UpdatedDoc(doc)}
                /\ PReturn(h, NilError, NoPermission, "", <<>>)
        /\ UNCHANGED <<nextPID, pop, now, sessionState>>

\* UpdateWebappSet / UpdateKonnectorSet that create the document when the
\* lookup has found none
UpdateAppCheckOrCreate(h, name, typ, docType, slug, set, fail1, fail2) ==
    LET r == getFromSource(typ, docType, slug, fail1, fail2) IN
    /\ PCall(h, name)
    /\ IF r.err # NilError
       THEN PGoto(h, "createAppSet", PArgs(typ, docType, slug, set, NoPermission))
       ELSE PGoto(h, "updateAppSet", PArgs(typ, docType, slug, set, r.perm))
    /\ UNCHANGED <<perms, nextPID, now, sessionState>>

\* UpdateWebappSet / UpdateKonnectorSet, the lookup
UpdateAppCheck(h, name, typ, docType, slug, set, fail1, fail2) ==
    LET r == getFromSource(typ, docType, slug, fail1, fail2) IN
    /\ PCall(h, name)
    /\ IF r.err # NilError
       THEN PReturn(h, r.err, NoPermission, "", <<>>)
       ELSE PGoto(h, "updateAppSet", PArgs(typ, docType, slug, set, r.perm))
    /\ UNCHANGED <<perms, nextPID, now, sessionState>>

UpdateWebappSet(h, slug, set, fail1, fail2) ==
    UpdateAppCheck(h, "UpdateWebappSet", TypeWebapp, Apps, slug, set, fail1, fail2)

UpdateKonnectorSet(h, slug, set, fail1, fail2) ==
    UpdateAppCheck(h, "UpdateKonnectorSet", TypeKonnector, Konnectors, slug, set, fail1, fail2)

\* func updateAppSet
updateAppSet(h, fail) ==
    LET doc == [parg[h].existing EXCEPT !.Permissions = parg[h].set] IN
    /\ ppc[h] = "updateAppSet"
    /\ doc.PRev < MaxRev
    /\ IF fail \/ ~PermRevMatches(doc)
       THEN /\ PReturn(h, StoreError, NoPermission, "", <<>>)
            /\ UNCHANGED perms
       ELSE /\ perms' = {d \in perms : d.PID # doc.PID} \cup {UpdatedDoc(doc)}
            /\ PReturn(h, NilError, UpdatedDoc(doc), "", <<>>)
    /\ UNCHANGED <<nextPID, pop, now, sessionState>>

\* func destroyApp, the query (Limit: 1000)
\* destroyApp whose query asks for one document only
DestroyAppFindFirst(h, name, typ, docType, slug, fail) ==
    /\ PCall(h, name)
    /\ IF fail
       THEN PReturn(h, StoreError, NoPermission, "", <<>>)
       ELSE /\ pret' = [pret EXCEPT ![h] =
                           PResult(NilError, NoPermission, "",
                                   FindDocs(typ, docType \o "/" \o slug, 1))]
            /\ ppc' = [ppc EXCEPT ![h] = "destroyApp"]
            /\ parg' = [parg EXCEPT ![h] = PArgs(typ, docType, slug, <<>>, NoPermission)]
    /\ UNCHANGED <<perms, nextPID, now, sessionState>>

DestroyAppFind(h, name, typ, docType, slug, fail) ==
    /\ PCall(h, name)
    /\ IF fail
       THEN PReturn(h, StoreError, NoPermission, "", <<>>)
       ELSE /\ pret' = [pret EXCEPT ![h] =
                           PResult(NilError, NoPermission, "",
                                   FindDocs(typ, docType \o "/" \o slug, 1000))]
            /\ ppc' = [ppc EXCEPT ![h] = "destroyApp"]
            /\ parg' = [parg EXCEPT ![h] = PArgs(typ, docType, slug, <<>>, NoPermission)]
    /\ UNCHANGED <<perms, nextPID, now, sessionState>>

DestroyWebapp(h, slug, fail) ==
    DestroyAppFind(h, "DestroyWebapp", TypeWebapp, Apps, slug, fail)

DestroyKonnector(h, slug, fail) ==
    DestroyAppFind(h, "DestroyKonnector", TypeKonnector, Konnectors, slug, fail)

\* destroyApp, one iteration of the loop: the first failed delete ends the call
DestroyAppLoop(h, fail) ==
    /\ ppc[h] = "destroyApp"
    /\ Len(pret[h].list) > 0
    /\ LET doc == Head(pret[h].list) IN
       IF fail \/ ~PermRevMatches(doc)
       THEN /\ PReturn(h, StoreError, NoPermission, "", <<>>)
            /\ UNCHANGED perms
       ELSE /\ perms' = {d \in perms : d.PID # doc.PID}
            /\ pret' = [pret EXCEPT ![h].list = Tail(@)]
            /\ UNCHANGED <<ppc, parg>>
    /\ UNCHANGED <<nextPID, pop, now, sessionState>>

\* destroyApp: return nil
DestroyAppReturn(h) ==
    /\ ppc[h] = "destroyApp"
    /\ Len(pret[h].list) = 0
    /\ PReturn(h, NilError, NoPermission, "", <<>>)
    /\ UNCHANGED <<perms, nextPID, pop, now, sessionState>>

\* ---- the permissions of the sharings ----
\* PatchCodes that leaves the shortcodes as they are
PatchCodesKeepShortcodes(p, codes) == [p EXCEPT !.Codes = codes]

\* func (p *Permission) PatchCodes(codes map[string]string)
PatchCodes(p, codes) ==
    LET updatedShortcodes ==
            [shortcodeName \in {sn \in Keys(p.ShortCodes) :
                                   \E codeName \in Keys(codes) : sn = codeName}
                |-> p.ShortCodes.kv[shortcodeName]]
    IN  [p EXCEPT !.Codes = codes,
                  !.ShortCodes = IF p.ShortCodes.nil THEN p.ShortCodes
                                 ELSE MakeMap(updatedShortcodes)]

\* PatchCodes on the document the handler holds
PatchCodesCall(h, codes) ==
    /\ pret[h].perm # NoPermission
    /\ PCall(h, "PatchCodes")
    /\ PReturn(h, NilError, PatchCodes(pret[h].perm, codes), "", <<>>)
    /\ UNCHANGED <<perms, nextPID, now, sessionState>>

\* checkSetPermissions without the comparison with the parent
checkSetPermissionsNoSubSet(set, parent) ==
    IF parent.Type \notin {TypeWebapp, TypeKonnector, TypeOauth, TypeCLI}
    THEN ErrOnlyAppCanCreateSubSet
    ELSE IF \E i \in DOMAIN set :
               ~MatchType(set[i], Files) /\ CheckWritable(set[i].Type) # "nil"
    THEN ErrNotWritable
    ELSE NilError

\* checkSetPermissions with an error that names the first rule that is not
\* within the parent's
checkSetPermissionsNamesRule(set, parent) ==
    IF parent.Type \notin {TypeWebapp, TypeKonnector, TypeOauth, TypeCLI}
    THEN ErrOnlyAppCanCreateSubSet
    ELSE IF ~IsSubSetOf(set, parent.Permissions)
    THEN LET bad == {i \in DOMAIN set : ~IsSubSetOf(<<set[i]>>, parent.Permissions)}
             first == CHOOSE i \in bad : \A j \in bad : i <= j
         IN  Error("ErrNotSubset: " \o set[first].Title, 0)
    ELSE IF \E i \in DOMAIN set :
               ~MatchType(set[i], Files) /\ CheckWritable(set[i].Type) # "nil"
    THEN ErrNotWritable
    ELSE NilError

\* func checkSetPermissions(set Set, parent *Permission) error
checkSetPermissions(set, parent) ==
    IF parent.Type \notin {TypeWebapp, TypeKonnector, TypeOauth, TypeCLI}
    THEN ErrOnlyAppCanCreateSubSet
    ELSE IF ~IsSubSetOf(set, parent.Permissions)
    THEN ErrNotSubset
    ELSE IF \E i \in DOMAIN set :
               ~MatchType(set[i], Files) /\ CheckWritable(set[i].Type) # "nil"
    THEN ErrNotWritable
    ELSE NilError

\* a create function of the sharings: couchdb.CreateDoc(db, doc) and the return
CreateShareDoc(h, name, args, doc, fail) ==
    /\ PCall(h, name)
    /\ nextPID <= MaxIDs
    /\ IF fail
       THEN /\ PReturnArgs(h, args, StoreError, NoPermission, "", <<>>)
            /\ UNCHANGED <<perms, nextPID>>
       ELSE /\ perms' = perms \cup {CreatedDoc(doc)}
            /\ nextPID' = nextPID + 1
            /\ PReturnArgs(h, args, NilError, CreatedDoc(doc), "", <<>>)
    /\ UNCHANGED <<now, sessionState>>

\* func CreateShareSet, for a subdoc without password
CreateShareSet(h, parent, sourceID, codes, shortcodes, set, expiresAt, fail) ==
    IF checkSetPermissions(set, parent) # NilError
    THEN /\ PCall(h, "CreateShareSet")
         /\ PReturnArgs(h, [set |-> set, parent |-> parent], checkSetPermissions(set, parent), NoPermission, "", <<>>)
         /\ UNCHANGED <<perms, nextPID, now, sessionState>>
    ELSE CreateShareDoc(h, "CreateShareSet", [set |-> set, parent |-> parent],
                        Permission(0, 0, TypeShareByLink, sourceID, set, expiresAt,
                                   codes, shortcodes), fail)

\* func CreateSharePreviewSet
CreateSharePreviewSet(h, sharingID, codes, shortcodes, set, fail) ==
    CreateShareDoc(h, "CreateSharePreviewSet", NoPArgs,
                   Permission(0, 0, TypeSharePreview, Sharings \o "/" \o sharingID, set,
                              NoExpiry, codes, shortcodes), fail)

\* func CreateShareInteractSet
CreateShareInteractSet(h, sharingID, codes, set, fail) ==
    CreateShareDoc(h, "CreateShareInteractSet", NoPArgs,
                   Permission(0, 0, TypeShareInteract, Sharings \o "/" \o sharingID, set,
                              NoExpiry, codes, NilMap), fail)

\* ---- lookups by id, by token, by shortcode and by doctype ----
\* func GetByID
GetByID(h, id, fail) ==
    /\ PCall(h, "GetByID")
    /\ IF fail
       THEN PReturn(h, StoreError, NoPermission, "", <<>>)
       ELSE IF ~\E d \in perms : d.PID = id
       THEN PReturn(h, NotFoundError, NoPermission, "", <<>>)
       ELSE LET perm == CHOOSE d \in perms : d.PID = id IN
            IF Expired(perm, now)
            THEN PReturn(h, ErrExpiredToken, NoPermission, "", <<>>)
            ELSE PReturn(h, NilError, perm, "", <<>>)
    /\ UNCHANGED <<perms, nextPID, now, sessionState>>

\* the view couchdb.PermissionsShareByCView: one row for every code of every
\* document, under the code as key
ShareByCView(key) ==
    {[doc |-> r[1], key |-> key, value |-> r[2]] :
        r \in {r \in perms \X Emails :
                  r[2] \in Keys(r[1].Codes) /\ r[1].Codes.kv[r[2]] = key}}

\* the view couchdb.PermissionsShareByShortcodeView: one row for every shortcode
\* of every document, under the shortcode as key and with its email as value
ShareByShortcodeView(key) ==
    {[doc |-> r[1], key |-> key, value |-> r[2]] :
        r \in {r \in perms \X Emails :
                  r[2] \in Keys(r[1].ShortCodes) /\ r[1].ShortCodes.kv[r[2]] = key}}

\* the view couchdb.PermissionsByDoctype: the documents of a type that have a
\* rule for the doctype
ByDoctypeView(doctype, permType) ==
    PermDocs({d \in perms : /\ d.Type = permType
                            /\ \E i \in DOMAIN d.Permissions :
                                  d.Permissions[i].Type = doctype}, 1)

\* GetForShareCode with the expiry of the first row tested before the rows are
\* counted
GetForShareCodeExpiryFirst(h, tokenCode, fail, sourceGone) ==
    LET rows == ShareByCView(tokenCode) IN
    /\ PCall(h, "GetForShareCode")
    /\ IF fail
       THEN PReturn(h, StoreError, NoPermission, "", <<>>)
       ELSE IF Cardinality(rows) = 0
       THEN PReturn(h, NewHTTPError(StatusForbidden, "no permission doc for token"),
                    NoPermission, "", <<>>)
       ELSE IF Expired((CHOOSE r \in rows : TRUE).doc, now)
       THEN PReturn(h, ErrExpiredToken, NoPermission, "", <<>>)
       ELSE IF Cardinality(rows) > 1
       THEN PReturn(h, NewHTTPError(StatusBadRequest, "Bad state: several permission docs"),
                    NoPermission, "", <<>>)
       ELSE IF sourceGone
       THEN PReturn(h, ErrExpiredToken, NoPermission, "", <<>>)
       ELSE PReturn(h, NilError, (CHOOSE r \in rows : TRUE).doc, "", <<>>)
    /\ UNCHANGED <<perms, nextPID, now, sessionState>>

\* func GetForShareCode; sourceGone: the release is not a development one and
\* the document of the source of the permission cannot be fetched
GetForShareCode(h, tokenCode, fail, sourceGone) ==
    LET rows == ShareByCView(tokenCode) IN
    /\ PCall(h, "GetForShareCode")
    /\ IF fail
       THEN PReturn(h, StoreError, NoPermission, "", <<>>)
       ELSE IF Cardinality(rows) = 0
       THEN PReturn(h, NewHTTPError(StatusForbidden, "no permission doc for token"),
                    NoPermission, "", <<>>)
       ELSE IF Cardinality(rows) > 1
       THEN PReturn(h, NewHTTPError(StatusBadRequest, "Bad state: several permission docs"),
                    NoPermission, "", <<>>)
       ELSE LET perm == (CHOOSE r \in rows : TRUE).doc IN
            IF Expired(perm, now)
            THEN PReturn(h, ErrExpiredToken, NoPermission, "", <<>>)
            ELSE IF sourceGone
            THEN PReturn(h, ErrExpiredToken, NoPermission, "", <<>>)
            ELSE PReturn(h, NilError, perm, "", <<>>)
    /\ UNCHANGED <<perms, nextPID, now, sessionState>>

\* GetTokenAndPermissionsFromShortcode that returns a code of the document
\* whatever its email
GetTokenAnyCode(h, shortcode, fail) ==
    LET rows == ShareByShortcodeView(shortcode) IN
    /\ PCall(h, "GetTokenAndPermissionsFromShortcode")
    /\ IF fail
       THEN PReturn(h, StoreError, NoPermission, "", <<>>)
       ELSE IF Cardinality(rows) = 0
       THEN PReturn(h, NewHTTPError(StatusForbidden, "no permission doc for shortcode"),
                    NoPermission, "", <<>>)
       ELSE IF Cardinality(rows) > 1
       THEN PReturn(h, NewHTTPError(StatusBadRequest, "Bad state: several permission docs"),
                    NoPermission, "", <<>>)
       ELSE LET perm == (CHOOSE r \in rows : TRUE).doc IN
            IF Keys(perm.Codes) # {}
            THEN PReturn(h, NilError, perm,
                         perm.Codes.kv[CHOOSE mail \in Keys(perm.Codes) : TRUE], <<>>)
            ELSE PReturn(h, Error("Cannot find token for shortcode", 0),
                         NoPermission, "", <<>>)
    /\ UNCHANGED <<perms, nextPID, now, sessionState>>

\* func GetTokenAndPermissionsFromShortcode
GetTokenAndPermissionsFromShortcode(h, shortcode, fail) ==
    LET rows == ShareByShortcodeView(shortcode) IN
    /\ PCall(h, "GetTokenAndPermissionsFromShortcode")
    /\ IF fail
       THEN PReturn(h, StoreError, NoPermission, "", <<>>)
       ELSE IF Cardinality(rows) = 0
       THEN PReturn(h, NewHTTPError(StatusForbidden, "no permission doc for shortcode"),
                    NoPermission, "", <<>>)
       ELSE IF Cardinality(rows) > 1
       THEN PReturn(h, NewHTTPError(StatusBadRequest, "Bad state: several permission docs"),
                    NoPermission, "", <<>>)
       ELSE LET row == CHOOSE r \in rows : TRUE
                perm == row.doc
            IN  IF \E mail \in Keys(perm.Codes) : mail = row.value
                THEN PReturn(h, NilError, perm, perm.Codes.kv[row.value], <<>>)
                ELSE PReturn(h, Error("Cannot find token for shortcode", 0),
                             NoPermission, "", <<>>)
    /\ UNCHANGED <<perms, nextPID, now, sessionState>>

\* func GetPermissionsByDoctype, for a cursor that covers all the rows
GetPermissionsByDoctype(h, permType, doctype, fail) ==
    /\ PCall(h, "GetPermissionsByDoctype")
    /\ IF fail
       THEN PReturn(h, StoreError, NoPermission, "", <<>>)
       ELSE PReturn(h, NilError, NoPermission, "", ByDoctypeView(doctype, permType))
    /\ UNCHANGED <<perms, nextPID, now, sessionState>>

\* ---- the end of a permission ----
\* couchdb.DeleteDoc on a permission document: the error of the request
DeleteDocError(doc, fail) ==
    IF fail THEN StoreError
    ELSE IF ~\E d \in perms : d.PID = doc.PID THEN NotFoundError
    ELSE IF ~PermRevMatches(doc) THEN ConflictError
    ELSE NilError

\* Revoke that reports a document that is gone as a success
RevokeMissingIsNil(h, fail) ==
    LET p == pret[h].perm
        err == IF DeleteDocError(p, fail) = NotFoundError THEN NilError
               ELSE DeleteDocError(p, fail)
    IN  /\ p # NoPermission
        /\ PCall(h, "Revoke")
        /\ perms' = IF DeleteDocError(p, fail) = NilError
                    THEN {d \in perms : d.PID # p.PID} ELSE perms
        /\ PReturn(h, err, p, "", <<>>)
        /\ UNCHANGED <<nextPID, now, sessionState>>

\* func (p *Permission) Revoke(db), on the document the handler holds, which it
\* still holds afterwards
Revoke(h, fail) ==
    LET p == pret[h].perm IN
    /\ p # NoPermission
    /\ PCall(h, "Revoke")
    /\ perms' = IF DeleteDocError(p, fail) = NilError
                THEN {d \in perms : d.PID # p.PID} ELSE perms
    /\ PReturn(h, DeleteDocError(p, fail), p, "", <<>>)
    /\ UNCHANGED <<nextPID, now, sessionState>>

\* ---- the verbs on documents shared by link ----
\* VerbSet.Merge: the verbs of both sets; an empty set stands for every verb
VerbSetMerge(vs, verbs) == IF vs = {} \/ verbs = {} THEN {} ELSE vs \cup verbs

\* the rows a document emits in the view couchdb.PermissionsShareByDocView for
\* an id: one row for every rule on the doctype that names the id, from rule i
RECURSIVE DocRows(_, _, _, _)
DocRows(d, doctype, id, i) ==
    IF i > Len(d.Permissions) THEN <<>>
    ELSE (IF d.Permissions[i].Type = doctype /\ id \in d.Permissions[i].Values
          THEN <<[Value |-> d.Permissions[i].Verbs, ID |-> d.PID,
                  Key |-> <<doctype, "_id", id>>]>>
          ELSE <<>>)
         \o DocRows(d, doctype, id, i + 1)

\* the rows of the sharings by link for an id, in the order of the documents
RECURSIVE KeyRows(_, _, _)
KeyRows(doctype, id, pid) ==
    IF pid > MaxIDs THEN <<>>
    ELSE (IF \E d \in perms : d.PID = pid /\ d.Type = TypeShareByLink
          THEN DocRows(CHOOSE d \in perms : d.PID = pid, doctype, id, 1)
          ELSE <<>>)
         \o KeyRows(doctype, id, pid + 1)

\* the rows of the view for the keys of the request, from key i
RECURSIVE ShareByDocView(_, _, _)
ShareByDocView(doctype, ids, i) ==
    IF i > Len(ids) THEN <<>>
    ELSE KeyRows(doctype, ids[i], 1) \o ShareByDocView(doctype, ids, i + 1)

\* the loop of GetPermissionsForIDs over the rows, from row i, that overwrites
\* the entry of an id
RECURSIVE ForIDsLoopOverwrite(_, _, _)
ForIDsLoopOverwrite(rows, i, result) ==
    IF i > Len(rows) THEN result
    ELSE LET id == rows[i].Key[3] IN
         ForIDsLoopOverwrite(rows, i + 1,
             [k \in DOMAIN result \cup {id} |->
                 IF k = id THEN rows[i].Value ELSE result[k]])

\* the loop of GetPermissionsForIDs over the rows, from row i
RECURSIVE ForIDsLoop(_, _, _)
ForIDsLoop(rows, i, result) ==
    IF i > Len(rows) THEN result
    ELSE LET id == rows[i].Key[3] IN
         ForIDsLoop(rows, i + 1,
             [k \in DOMAIN result \cup {id} |->
                 IF k # id THEN result[k]
                 ELSE IF id \in DOMAIN result
                 THEN VerbSetMerge(result[id], rows[i].Value)
                 ELSE rows[i].Value])

\* func GetPermissionsForIDs: the map is returned in the place of the list
GetPermissionsForIDs(h, doctype, ids, fail) ==
    /\ PCall(h, "GetPermissionsForIDs")
    /\ IF fail
       THEN PReturnArgs(h, [doctype |-> doctype, ids |-> ids],
                        StoreError, NoPermission, "", <<>>)
       ELSE PReturnArgs(h, [doctype |-> doctype, ids |-> ids],
                        NilError, NoPermission, "",
                        ForIDsLoop(ShareByDocView(doctype, ids, 1), 1, <<>>))
    /\ UNCHANGED <<perms, nextPID, now, sessionState>>

\* ---- the merge of two sets ----
\* Rule.Merge, when it returns no error: the rule with the verbs and the values
\* of both
RuleMerge(r, r2) ==
    [r EXCEPT !.Verbs = r.Verbs \cup r2.Verbs, !.Values = r.Values \cup r2.Values]

\* for _, p := range perms: ep.Title == p.Title
TitleFound(title, current) == \E i \in DOMAIN current : current[i].Title = title

\* the first loop of MergeExtraPermissions, from the rule i of extraPermissions
RECURSIVE AppendNotFound(_, _, _, _)
AppendNotFound(current, extraPermissions, i, permissions) ==
    IF i > Len(extraPermissions) THEN permissions
    ELSE AppendNotFound(current, extraPermissions, i + 1,
                        IF TitleFound(extraPermissions[i].Title, current)
                        THEN permissions
                        ELSE Append(permissions, extraPermissions[i]))

\* the inner loop of the second loop, from the rule j of extraPermissions:
\* the first rule with the title of rule that Rule.Merge accepts; failing holds
\* the titles of the rules for which Rule.Merge returns an error
RECURSIVE MergeWith(_, _, _, _)
MergeWith(rule, extraPermissions, failing, j) ==
    IF j > Len(extraPermissions) THEN rule
    ELSE IF rule.Title = extraPermissions[j].Title /\ rule.Title \notin failing
    THEN RuleMerge(rule, extraPermissions[j])
    ELSE MergeWith(rule, extraPermissions, failing, j + 1)

\* the second loop of MergeExtraPermissions, from the rule i of perms
RECURSIVE MergeExisting(_, _, _, _, _)
MergeExisting(current, extraPermissions, failing, i, permissions) ==
    IF i > Len(current) THEN permissions
    ELSE MergeExisting(current, extraPermissions, failing, i + 1,
                       Append(permissions,
                              MergeWith(current[i], extraPermissions, failing, 1)))

\* MergeExtraPermissions that appends every rule of extraPermissions
MergeExtraPermissionsAppendAll(current, extraPermissions, failing) ==
    MergeExisting(current, extraPermissions, failing, 1, extraPermissions)

\* func MergeExtraPermissions(perms, extraPermissions Set) (Set, error)
MergeExtraPermissions(current, extraPermissions, failing) ==
    MergeExisting(current, extraPermissions, failing, 1,
                  AppendNotFound(current, extraPermissions, 1, <<>>))

\* a call of MergeExtraPermissions: the new set is returned, nothing is stored
MergeExtraPermissionsCall(h, current, extraPermissions, failing) ==
    /\ PCall(h, "MergeExtraPermissions")
    /\ PReturnArgs(h, [set |-> current, failing |-> failing, extra |-> extraPermissions],
                   NilError, NoPermission, "",
                   MergeExtraPermissions(current, extraPermissions, failing))
    /\ UNCHANGED <<perms, nextPID, now, sessionState>>

\* ---- the rules of a document ----
\* func (p *Permission) AddRules(rules ...Rule)
AddRules(permissions, rules) == permissions \o rules

\* RemoveRule's loop: newperms shares the array of p.Permissions; rule i is
\* written at place k + 1 when its title is not the one to remove
RECURSIVE RemoveRuleLoop(_, _, _, _)
RemoveRuleLoop(permissions, i, k, title) ==
    IF i > Len(permissions) THEN SubSeq(permissions, 1, k)
    ELSE IF permissions[i].Title # title
    THEN RemoveRuleLoop([permissions EXCEPT ![k + 1] = permissions[i]], i + 1, k + 1,
                        title)
    ELSE RemoveRuleLoop(permissions, i + 1, k, title)

\* RemoveRule that stops at the first rule of that title
RemoveRuleFirstOnly(permissions, rule) ==
    LET hits == {i \in DOMAIN permissions : permissions[i].Title = rule.Title}
    IN  IF hits = {} THEN permissions
        ELSE LET first == CHOOSE i \in hits : \A j \in hits : i <= j
             IN  SubSeq(permissions, 1, first - 1)
                   \o SubSeq(permissions, first + 1, Len(permissions))

\* func (p *Permission) RemoveRule(rule Rule)
RemoveRule(permissions, rule) == RemoveRuleLoop(permissions, 1, 0, rule.Title)

\* a call of p.AddRules(rules...) on a document with these Permissions
AddRulesCall(h, permissions, rules) ==
    /\ PCall(h, "AddRules")
    /\ PReturnArgs(h, [set |-> permissions, extra |-> rules], NilError, NoPermission,
                   "", AddRules(permissions, rules))
    /\ UNCHANGED <<perms, nextPID, now, sessionState>>

\* a call of p.RemoveRule(rule) on a document with these Permissions
RemoveRuleCall(h, permissions, rule) ==
    /\ PCall(h, "RemoveRule")
    /\ PReturnArgs(h, [set |-> permissions, extra |-> <<rule>>], NilError,
                   NoPermission, "", RemoveRule(permissions, rule))
    /\ UNCHANGED <<perms, nextPID, now, sessionState>>

\* ---- who can update a sharing by link ----
\* CanUpdateShareByLink with the types checkSetPermissions allows
CanUpdateShareByLinkAnyApp(p, child) ==
    IF child.Type # TypeShareByLink THEN FALSE
    ELSE IF p.Type \notin {TypeWebapp, TypeKonnector, TypeOauth, TypeCLI} THEN FALSE
    ELSE child.SourceID = p.SourceID \/ IsSubSetOf(child.Permissions, p.Permissions)

\* func (p *Permission) CanUpdateShareByLink(child *Permission) bool
CanUpdateShareByLink(p, child) ==
    IF child.Type # TypeShareByLink THEN FALSE
    ELSE IF p.Type # TypeWebapp /\ p.Type # TypeOauth THEN FALSE
    ELSE child.SourceID = p.SourceID \/ IsSubSetOf(child.Permissions, p.Permissions)

\* a call of p.CanUpdateShareByLink(child)
CanUpdateShareByLinkCall(h, p, child) ==
    /\ PCall(h, "CanUpdateShareByLink")
    /\ PReturnArgs(h, [parent |-> p, existing |-> child], NilError, NoPermission, "",
                   <<CanUpdateShareByLink(p, child)>>)
    /\ UNCHANGED <<perms, nextPID, now, sessionState>>

\* ---- the order of the sets ----
\* a handler compares three sets two by two with Set.IsSubSetOf, as
\* checkSetPermissions compares a requested set with that of its parent
IsSubSetOfCall(h, a, b, c) ==
    /\ PCall(h, "IsSubSetOf")
    /\ PReturnArgs(h, [set |-> a, parent |-> b, extra |-> c],
                   NilError, NoPermission, "",
                   <<IsSubSetOf(a, b), IsSubSetOf(b, c), IsSubSetOf(a, c)>>)
    /\ UNCHANGED <<perms, nextPID, now, sessionState>>

\* ---- the properties of the session life cycle ----
GetOps == {"Get", "FromCookie"}

\* handler p returns from Get (called directly or by FromCookie) in this step
GetReturns(p) ==
    /\ pc'[p] = "idle"
    /\ op'[p] \in GetOps
    /\ \/ pc[p] \in {"GetExpireReturn", "GetRefreshReturn"}
       \/ \E id \in IDs, fail \in BOOLEAN : Get(p, id, fail)
       \/ \E fail \in BOOLEAN : FromCookie(p, fail)

\* the time the Get that returns in this step has read from the clock
CheckTime(p) == IF pc[p] = "idle" THEN now ELSE tnow[p]

\* the session was last seen more than 30 days before time t
Stale(sess, t) == t - sess.LastSeen > 30 * 24

\* the session was last seen more than 24 hours before time t
Due(sess, t) == t - sess.LastSeen > 24

\* the document of that id and revision is in the database
Stored(sess) == \E d \in store : d.DocID = sess.DocID /\ d.DocRev = sess.DocRev

\* C1, as stated: Get never returns a session last seen more than 30 days before
\* the time it reads; for such a session it returns ErrExpired and no session,
\* and the document is deleted from the database when it returns.
C1_AsStated ==
    [][\A p \in Procs :
         /\ (GetReturns(p) /\ ret'[p].sess # NoSession)
               => ~Stale(ret'[p].sess, CheckTime(p))
         /\ (pc'[p] = "GetRefreshLock") => ~Stale(s'[p], tnow'[p])
         /\ GetExpireReturn(p)
               => /\ ret'[p].err = "ErrExpired"
                  /\ ret'[p].sess = NoSession
                  /\ ~\E d \in store' : d.DocID = arg[p]]_vars

\* C1, amended: Get never returns a session last seen more than 30 days before
\* the time it reads; for such a session it returns ErrExpired and no session,
\* after it has asked the database to delete the revision it fetched: the
\* document is deleted unless that request fails (an error of the store, or a
\* revision that is no longer the current one), and then nothing is changed.
C1_ExpiredNeverReturned ==
    [][\A p \in Procs :
         /\ (GetReturns(p) /\ ret'[p].sess # NoSession)
               => ~Stale(ret'[p].sess, CheckTime(p))
         /\ (pc'[p] = "GetRefreshLock") => ~Stale(s'[p], tnow'[p])
         /\ GetExpireReturn(p)
               => /\ ret'[p].err = "ErrExpired"
                  /\ ret'[p].sess = NoSession
                  /\ Stale(s[p], tnow[p])
         /\ \A fail \in BOOLEAN :
               GetExpireDelete(p, fail)
                 => IF ~fail /\ Stored(s[p])
                    THEN store' = {d \in store : d.DocID # s[p].DocID}
                    ELSE store' = store]_vars

\* C1, witness: a Get has returned ErrExpired and the document is gone
C1_Witness ==
    \E p \in Procs :
        /\ pc[p] = "idle" /\ op[p] = "Get"
        /\ ret[p].err = "ErrExpired"
        /\ ret[p].id < nextID
        /\ GetDoc(ret[p].id) = {}

\* C2, as stated: a Get that fetches a session last seen 31 days ago returns
\* ErrExpired, and the next Get of the same id returns ErrInvalidID.
C2_AsStated ==
    [][\A p \in Procs :
         /\ GetExpireReturn(p) => (ret'[p].err = "ErrExpired" /\ ret'[p].id = arg[p])
         /\ \A id \in IDs, fail \in BOOLEAN :
               ( /\ pc[p] = "idle" /\ op[p] = "Get"
                 /\ ret[p].err = "ErrExpired" /\ ret[p].id = id
                 /\ Get(p, id, fail) )
               => (pc'[p] = "idle" /\ ret'[p].err = "ErrInvalidID")]_vars

\* C2, amended: a Get that fetches a session last seen 31 days ago returns
\* ErrExpired; the next Get of the same id never returns a session: it returns
\* ErrInvalidID when the document is gone, it finds the session expired again when
\* the delete of the first Get had failed and the document is still stored, and
\* it returns the error of the store when its own fetch fails.
C2_ExpiredThenInvalid ==
    [][\A p \in Procs :
         /\ GetExpireReturn(p) => (ret'[p].err = "ErrExpired" /\ ret'[p].id = arg[p])
         /\ \A id \in IDs, fail \in BOOLEAN :
               ( /\ pc[p] = "idle" /\ op[p] = "Get"
                 /\ ret[p].err = "ErrExpired" /\ ret[p].id = id
                 /\ Get(p, id, fail) )
               => /\ ret'[p].sess = NoSession
                  /\ fail => (pc'[p] = "idle" /\ ret'[p].err = "ErrStore")
                  /\ (~fail /\ ~\E d \in store : d.DocID = id)
                        => (pc'[p] = "idle" /\ ret'[p].err = "ErrInvalidID")
                  /\ (~fail /\ \E d \in store : d.DocID = id)
                        => (pc'[p] = "GetExpireLock" /\ Stale(s'[p], now))]_vars

\* C2, witness: a Get has returned ErrExpired and its delete had failed, so that
\* the next Get of that id still finds the document
C2_Witness ==
    \E p \in Procs :
        /\ pc[p] = "idle" /\ op[p] = "Get"
        /\ ret[p].err = "ErrExpired"
        /\ \E d \in store : d.DocID = ret[p].id /\ Stale(d, now)

C4_OneWritePerWindow ==
    \A i \in DOMAIN updates, j \in DOMAIN updates :
        (i < j /\ updates[i].id = updates[j].id)
        => /\ updates[i].rev # updates[j].rev
           /\ updates[j].at > updates[i].at + 24

\* C4, witness: a call has written the new LastSeen, and a second call that had
\* fetched the same revision has been through its update without writing
C4_Witness ==
    \E p \in Procs, k \in DOMAIN updates :
        /\ pc[p] = "GetRefreshReturn"
        /\ s[p].DocID = updates[k].id
        /\ s[p].DocRev = updates[k].rev
        /\ s[p].LastSeen = lastSeen[p]
        /\ ~Stored(s[p])
        /\ \E d \in store : d.DocID = s[p].DocID /\ d.LastSeen = updates[k].at

\* handler p is about to return from a Get whose update of LastSeen has not
\* been written: no write of this call is in the history of the updates
RefreshFailed(p) ==
    /\ pc[p] = "GetRefreshReturn"
    /\ ~\E k \in DOMAIN updates :
           /\ updates[k].id = s[p].DocID
           /\ updates[k].rev + 1 = s[p].DocRev
           /\ updates[k].at >= tnow[p]

\* C29: when the update of LastSeen inside Get fails (an error of the store, or
\* a revision that is no longer the current one), the step leaves the database
\* as it is and the session with the LastSeen that was fetched, and Get returns
\* that session with a nil error.
C29_FailedRefreshIsNotFatal ==
    [][\A p \in Procs :
         /\ \A fail \in BOOLEAN :
               (GetRefreshUpdate(p, fail) /\ (fail \/ ~RevMatches(s[p])))
               => /\ store' = store
                  /\ s'[p].LastSeen = s[p].LastSeen
                  /\ lastSeen'[p] = s[p].LastSeen
                  /\ RefreshFailed(p)'
         /\ (RefreshFailed(p) /\ pc'[p] = "idle")
               => /\ ret'[p].err = "nil"
                  /\ ret'[p].sess.DocID = arg[p]
                  /\ ret'[p].sess.LastSeen = lastSeen[p]
                  /\ tnow[p] - ret'[p].sess.LastSeen > UpdatePeriod
                  /\ store' = store]_vars

\* C29, witness: the store has failed the update of a session that is still
\* the stored one, and Get is about to return it as it was fetched
C29_Witness ==
    \E p \in Procs :
        /\ RefreshFailed(p)
        /\ s[p] \in store
        /\ s[p].LastSeen = lastSeen[p]
        /\ now > s[p].LastSeen + UpdatePeriod

\* handler p is in the part of Get that runs between lockSession and the
\* deferred unlock, for session id
InLockedPart(p, id) ==
    /\ pc[p] \in {"GetExpireDelete", "GetExpireReturn", "GetRefreshUpdate",
                  "GetRefreshReturn"}
    /\ arg[p] = id

C5_FlagsExclusive ==
    [][/\ \A d \in store' : ~(d.LongRun /\ d.ShortRun)
       /\ \A p \in Procs, duration \in Durations, sid \in SIDs :
             New(p, duration, sid, FALSE)
             => \E d \in store' \ store :
                    /\ ret'[p].sess = d
                    /\ d.ShortRun = (duration = ShortRun)
                    /\ d.LongRun = (duration = LongRun)
                    /\ d.CreatedAt = d.LastSeen
                    /\ d.CreatedAt = now
       /\ \A d \in store, e \in store' :
             d.DocID = e.DocID
             => (e.LongRun = d.LongRun /\ e.ShortRun = d.ShortRun)]_vars

\* C5, witness: a long session that Get has refreshed, next to a short one
C5_Witness ==
    \E d \in store, e \in store :
        /\ d.LongRun /\ ~d.ShortRun /\ d.DocRev > 1 /\ d.LastSeen > d.CreatedAt
        /\ e.ShortRun /\ ~e.LongRun

\* C9: GetAll returns exactly the fetched sessions that are not older than 30
\* days since LastSeen, in their order, it requests the deletion of exactly the
\* older ones, and it returns the same kept sessions without error when that
\* deletion fails.
C9_GetAllPartition ==
    [][\A p \in Procs :
         LET docs == AllDocs(store, 1)
             young == SelectSeq(docs, LAMBDA d : now - d.LastSeen <= 30 * 24)
             old == SelectSeq(docs, LAMBDA d : now - d.LastSeen > 30 * 24)
         IN  /\ GetAll(p, FALSE)
                   => IF old = <<>>
                      THEN /\ pc'[p] = "idle"
                           /\ ret'[p].err = "nil"
                           /\ ret'[p].list = young
                      ELSE /\ pc'[p] = "GetAllBulkDelete"
                           /\ kept'[p] = young
                           /\ list'[p] = old
             /\ \A fail \in BOOLEAN :
                   GetAllBulkDelete(p, fail)
                   => /\ ret'[p].err = "nil"
                      /\ ret'[p].list = kept[p]
                      /\ fail => store' = store
                      /\ ~fail => store' = store \ {list[p][i] : i \in 1..Len(list[p])}]_vars

\* C9, witness: GetAll has returned a kept session while an expired one is still
\* stored, its deletion having failed
C9_Witness ==
    \E p \in Procs :
        /\ pc[p] = "idle" /\ op[p] = "GetAll"
        /\ ret[p].err = "nil"
        /\ Len(ret[p].list) > 0
        /\ \A i \in 1..Len(ret[p].list) : ~Stale(ret[p].list[i], now)
        /\ \E d \in store : Stale(d, now)

\* C10, as stated: when DeleteOthers(keepID) completes, every session that it has
\* enumerated with an ID different from keepID is deleted from the store, and the
\* session with ID keepID is still stored and unchanged.
C10_OthersDeleted ==
    [][\A p \in Procs :
         DeleteOthersReturn(p)
         => \A i \in 1..Len(list[p]) :
                IF list[p][i].DocID # arg[p]
                THEN ~\E d \in store' : d.DocID = list[p][i].DocID
                ELSE list[p][i] \in store']_vars

\* C11, as stated: when DeleteBySID(sid) completes, every session it has
\* enumerated whose SID equals sid is deleted from the store, and every session
\* whose SID differs from sid is still stored and unchanged.
C11_BySIDDeleted ==
    [][\A p \in Procs :
         DeleteBySIDReturn(p)
         => \A i \in 1..Len(list[p]) :
                IF list[p][i].SID = sidarg[p]
                THEN ~\E d \in store' : d.DocID = list[p][i].DocID
                ELSE list[p][i] \in store']_vars

\* ---- the properties of the session cookie ----
\* the cookie of handler p is one ToCookie has issued for session id
IssuedFor(p, id) ==
    /\ cookie[p].Name = CookieName(Instance)
    /\ cookie[p].Value = EncodeAuthMessage(cookieSessionMACConfig(Instance),
                                           Instance.SessionSecret, id).value

\* C6: the value ToCookie issues for a session decodes, in FromCookie for the
\* same instance, to the ID of that session: FromCookie resolves that ID and no
\* other, and returns the session when it is stored, fresh and fetched; for a
\* cookie value that is not an issued one, FromCookie returns an error and
\* resolves no session ID.
C6_CookieRoundTrip ==
    [][\A p \in Procs :
         /\ ToCookie(p) => (ret'[p].err = "nil" /\ IssuedFor(p, ret[p].sess.DocID)')
         /\ \A fail \in BOOLEAN :
               FromCookie(p, fail)
               => IF \E id \in IDs : IssuedFor(p, id)
                  THEN LET id == CHOOSE i \in IDs : IssuedFor(p, i) IN
                       /\ \A i \in IDs : IssuedFor(p, i) => i = id
                       /\ IF pc'[p] = "idle" THEN ret'[p].id = id ELSE arg'[p] = id
                       /\ ret'[p].sess # NoSession => ret'[p].sess.DocID = id
                       /\ (~fail /\ \E d \in store : d.DocID = id /\ ~Due(d, now))
                             => /\ pc'[p] = "idle"
                                /\ ret'[p].err = "nil"
                                /\ ret'[p].sess \in store
                                /\ ret'[p].sess.DocID = id
                  ELSE /\ pc'[p] = "idle"
                       /\ ret'[p].err # "nil"
                       /\ ret'[p].sess = NoSession
                       /\ ret'[p].id = 0]_vars

\* C6, witness: FromCookie has returned the stored session whose cookie ToCookie
\* had issued
C6_Witness ==
    \E p \in Procs :
        /\ pc[p] = "idle" /\ op[p] = "FromCookie"
        /\ ret[p].err = "nil"
        /\ ret[p].sess \in store
        /\ IssuedFor(p, ret[p].sess.DocID)

\* C7: FromCookie with no cookie or with an empty cookie value returns
\* ErrNoCookie, and with a value whose mac does not verify it returns the error of
\* the decoder; in each case it returns no session, it does not call Get, and it
\* neither reads nor writes the store.
C7_BadCookieNoStore ==
    [][\A p \in Procs, fail \in BOOLEAN :
         LET c == cookie[p]
             absent == c.Name # CookieName(Instance)
             empty == c.Value = EmptyValue
             badmac == \/ c.Value.len > 256
                       \/ c.Value.mac # MAC(Instance.SessionSecret, CookieName(Instance),
                                            c.Value.payload)
         IN  (FromCookie(p, fail) /\ (absent \/ empty \/ badmac))
             => /\ pc'[p] = "idle"
                /\ ret'[p].err = IF absent \/ empty THEN "ErrNoCookie"
                                  ELSE IF c.Value.len > 256 THEN "errMACTooLong"
                                  ELSE "errMACInvalid"
                /\ ret'[p].sess = NoSession
                /\ ret'[p].id = 0
                /\ store' = store
                /\ lock' = lock
                /\ nextID' = nextID]_vars

\* C7, witness: FromCookie has refused a cookie that names a stored session under
\* a mac that does not verify
C7_Witness ==
    \E p \in Procs :
        /\ pc[p] = "idle" /\ op[p] = "FromCookie"
        /\ ret[p].err = "errMACInvalid"
        /\ cookie[p].Name = CookieName(Instance)
        /\ \E d \in store : d.DocID = cookie[p].Value.payload

\* C8: ToCookie sets MaxAge = 300 for a ShortRun session, MaxAge = 315360000 for
\* a LongRun session and MaxAge = 0 for a session with neither flag.
C8_CookieMaxAge ==
    [][\A p \in Procs :
         ToCookie(p)
         => LET sess == ret[p].sess IN
            /\ cookie'[p].Name = CookieName(Instance)
            /\ (sess.ShortRun /\ ~sess.LongRun) => cookie'[p].MaxAge = 300
            /\ (sess.LongRun /\ ~sess.ShortRun) => cookie'[p].MaxAge = 315360000
            /\ (~sess.LongRun /\ ~sess.ShortRun) => cookie'[p].MaxAge = 0]_vars

\* C8, witness: ToCookie has given the cookie of a short session
C8_Witness ==
    \E p \in Procs :
        /\ pc[p] = "idle" /\ op[p] = "ToCookie"
        /\ ret[p].err = "nil"
        /\ ret[p].sess.ShortRun
        /\ IssuedFor(p, ret[p].sess.DocID)
        /\ cookie[p].MaxAge = 300

\* ---- the properties of the permission documents ----
AppTypes == {TypeWebapp, TypeKonnector}

\* C13, as stated: the store holds at most one non-expired permission document
\* per (Type, SourceID) for the app and konnector types, and a Create call for a
\* slug that already has one returns an error and creates nothing.
C13_OnePerSource ==
    \A d \in perms, e \in perms :
        ( /\ d.Type \in AppTypes
          /\ d.Type = e.Type /\ d.SourceID = e.SourceID
          /\ ~Expired(d, now) /\ ~Expired(e, now) )
        => d = e

\* C14, as stated: two CreateWebappSet (or two CreateKonnectorSet) calls for the
\* same slug never both return success with two distinct documents left in the
\* store for that (Type, SourceID).
C14_NotBothCreated ==
    \A g \in Procs, h \in Procs :
        ( /\ g # h
          /\ ppc[g] = "idle" /\ ppc[h] = "idle"
          /\ pop[g] = pop[h] /\ pop[g] \in {"CreateWebappSet", "CreateKonnectorSet"}
          /\ pret[g].err = NilError /\ pret[h].err = NilError
          /\ pret[g].perm \in perms /\ pret[h].perm \in perms
          /\ pret[g].perm.SourceID = pret[h].perm.SourceID )
        => pret[g].perm = pret[h].perm

\* C18, as stated: GetForWebapp and GetForKonnector return not-found when no
\* document matches (type, source_id), and an error that is not not-found, and no
\* document, when more than one document matches.
C18_SourceLookupRows ==
    [][\A h \in Procs, slug \in Slugs, f \in {<<FALSE, FALSE>>, <<TRUE, FALSE>>} :
         /\ GetForWebapp(h, slug, f[1], f[2])
               => LET rows == FindDocs(TypeWebapp, Apps \o "/" \o slug, MaxIDs) IN
                  /\ Len(rows) = 0 => (pret'[h].err = NotFoundError
                                       /\ pret'[h].perm = NoPermission)
                  /\ Len(rows) > 1 => (pret'[h].err \notin {NilError, NotFoundError}
                                       /\ pret'[h].perm = NoPermission)
         /\ GetForKonnector(h, slug, f[1], f[2])
               => LET rows == FindDocs(TypeKonnector, Konnectors \o "/" \o slug, MaxIDs) IN
                  /\ Len(rows) = 0 => (pret'[h].err = NotFoundError
                                       /\ pret'[h].perm = NoPermission)
                  /\ Len(rows) > 1 => (pret'[h].err \notin {NilError, NotFoundError}
                                       /\ pret'[h].perm = NoPermission)]_vars

\* ---- the properties of the sharings ----
\* the documents a call handed to its caller
ReturnedDocs(r) ==
    (IF r.perm # NoPermission THEN {r.perm} ELSE {}) \cup {r.list[i] : i \in DOMAIN r.list}

\* the calls that read permission documents
ReadOps == {"GetByID", "GetForWebapp", "GetForKonnector", "GetForSharePreview",
            "GetForShareInteract", "GetForShareCode",
            "GetTokenAndPermissionsFromShortcode", "GetPermissionsByDoctype"}

\* C12, as stated: no read path (GetByID, the lookups by source, GetForShareCode,
\* GetTokenAndPermissionsFromShortcode, GetPermissionsByDoctype) hands an expired
\* document to its caller.
C12_NoExpiredReturned ==
    [][\A h \in Procs :
         (pop'[h] \in ReadOps /\ pret'[h] # pret[h])
            => \A d \in ReturnedDocs(pret'[h]) : ~Expired(d, now')]_vars

\* C15, as stated: every stored permission document has the keys of its
\* ShortCodes among the keys of its Codes.
C15_ShortCodesWithinCodes ==
    \A d \in perms : Keys(d.ShortCodes) \subseteq Keys(d.Codes)

\* C16: after PatchCodes(codes) the Codes are codes, the shortcodes left are
\* those whose key is in codes, each with the value it had, and none is added.
C16_PatchCodes ==
    [][\A h \in Procs, codes \in CodeMaps :
         PatchCodesCall(h, codes)
            => LET old == pret[h].perm
                   new == pret'[h].perm
               IN  /\ new.Codes = codes
                   /\ Keys(new.ShortCodes) \subseteq Keys(codes)
                   /\ \A k \in Keys(new.ShortCodes) :
                         /\ k \in Keys(old.ShortCodes)
                         /\ new.ShortCodes.kv[k] = old.ShortCodes.kv[k]
                   /\ \A k \in Keys(old.ShortCodes) :
                         k \notin Keys(new.ShortCodes) <=> k \notin Keys(codes)]_vars

\* a PatchCodes has dropped the shortcode of a document, for codes that are not
\* empty
C16_Witness ==
    /\ pop["p1"] = "PatchCodes"
    /\ Keys(pret["p1"].perm.Codes) # {}
    /\ ~pret["p1"].perm.ShortCodes.nil
    /\ Keys(pret["p1"].perm.ShortCodes) = {}

\* what CreateShareSet asks of the parent and of the set
ShareAllowed(parent, set) ==
    /\ parent.Type \in {"app", "konnector", "oauth", "cli"}
    /\ IsSubSetOf(set, parent.Permissions)
    /\ \A i \in DOMAIN set : set[i].Type # Files => set[i].Type \notin NonWritable

\* C17: CreateShareSet persists a document only for a parent of type app,
\* konnector, oauth or cli, a set within the permissions of the parent, and
\* rules that are on files or on a writable doctype; otherwise it returns an
\* error and the store is unchanged.
C17_ShareSetChecked ==
    [][\A h \in Procs :
         (/\ pop'[h] = "CreateShareSet"
          /\ <<pop[h], parg[h], pret[h], perms>>' # <<pop[h], parg[h], pret[h], perms>>)
            => /\ perms' # perms => ShareAllowed(parg'[h].parent, parg'[h].set)
               /\ ~ShareAllowed(parg'[h].parent, parg'[h].set)
                     => (pret'[h].err # NilError /\ pret'[h].perm = NoPermission
                         /\ perms' = perms)]_vars

\* a sharing by link is stored, and a request for a set that is not within the
\* parent was then refused
C17_Witness ==
    /\ pop["p1"] = "CreateShareSet"
    /\ pret["p1"].err = ErrNotSubset
    /\ \E d \in perms : d.Type = TypeShareByLink

\* the documents that have the token among their codes
MatchingToken(key) ==
    {d \in perms : \E k \in Keys(d.Codes) : d.Codes.kv[k] = key}

\* the documents that have the shortcode among their shortcodes
MatchingShortcode(key) ==
    {d \in perms : \E k \in Keys(d.ShortCodes) : d.ShortCodes.kv[k] = key}

\* C19: GetForShareCode, when the view answers, returns a forbidden error for a
\* token no document has and a bad-state error for a token two documents or
\* more have, with no Permission in both cases, expired documents or not.
C19_ShareCodeRows ==
    [][\A h \in Procs, key \in Tokens, sourceGone \in BOOLEAN :
         GetForShareCode(h, key, FALSE, sourceGone)
            => /\ Cardinality(MatchingToken(key)) = 0
                     => (pret'[h].err.code = 403 /\ pret'[h].perm = NoPermission)
               /\ Cardinality(MatchingToken(key)) >= 2
                     => (pret'[h].err \notin {NilError, ErrExpiredToken}
                         /\ pret'[h].err.code # 403
                         /\ pret'[h].perm = NoPermission)]_vars

\* GetForShareCode has answered bad state for a token two expired documents have
C19_Witness ==
    /\ pop["p1"] = "GetForShareCode"
    /\ pret["p1"].err.code = StatusBadRequest
    /\ \E key \in Tokens :
          /\ Cardinality(MatchingToken(key)) >= 2
          /\ \A d \in MatchingToken(key) : Expired(d, now)

\* C20, as stated: a lookup by token or by shortcode that matches more than one
\* document returns an error of the server class (HTTP 5xx).
C20_AmbiguousIsServerFault ==
    [][\A h \in Procs :
         /\ \A key \in Tokens, sourceGone \in BOOLEAN :
               (GetForShareCode(h, key, FALSE, sourceGone)
                /\ Cardinality(MatchingToken(key)) > 1)
                  => (pret'[h].err.code >= 500 /\ pret'[h].err.code <= 599)
         /\ \A key \in Shorts :
               (GetTokenAndPermissionsFromShortcode(h, key, FALSE)
                /\ Cardinality(MatchingShortcode(key)) > 1)
                  => (pret'[h].err.code >= 500 /\ pret'[h].err.code <= 599)]_vars

\* the documents and emails that hold the shortcode
ShortcodeOwners(key) ==
    {o \in perms \X Emails :
        o[2] \in Keys(o[1].ShortCodes) /\ o[1].ShortCodes.kv[o[2]] = key}

\* C21: a lookup by a shortcode that one email of one document holds returns
\* that document with the code of that email, or, when the document has no code
\* for that email, an error with an empty token and no document.
C21_ShortcodeToken ==
    [][\A h \in Procs, key \in Shorts : \A o \in ShortcodeOwners(key) :
         (GetTokenAndPermissionsFromShortcode(h, key, FALSE)
          /\ ShortcodeOwners(key) = {o})
            => IF o[2] \in Keys(o[1].Codes)
               THEN /\ pret'[h].err = NilError
                    /\ pret'[h].perm = o[1]
                    /\ pret'[h].token = o[1].Codes.kv[o[2]]
               ELSE /\ pret'[h].err # NilError
                    /\ pret'[h].token = ""
                    /\ pret'[h].perm = NoPermission]_vars

\* a lookup by shortcode has returned a document and the code of the email of
\* the shortcode
C21_Witness ==
    /\ pop["p1"] = "GetTokenAndPermissionsFromShortcode"
    /\ pret["p1"].err = NilError
    /\ \E key \in Shorts, k \in Emails :
          /\ ShortcodeOwners(key) = {<<pret["p1"].perm, k>>}
          /\ pret["p1"].token = pret["p1"].perm.Codes.kv[k]

\* ---- the properties of the merge ----
\* the rule of a set under a title
RuleOf(set, title) == set[CHOOSE i \in DOMAIN set : set[i].Title = title]

\* C22, as stated: the result of MergeExtraPermissions has the rules of perms
\* first, in their order, and then the rules of extraPermissions whose title is
\* not in perms, in their order.
C22_NewRulesAppended ==
    \A h \in Procs :
       pop[h] = "MergeExtraPermissions"
          => LET current == parg[h].set
                 extra == parg[h].extra
                 res == pret[h].list
                 n == Len(current)
             IN  /\ Len(res) >= n
                 /\ \A i \in 1..n : res[i].Title = current[i].Title
                 /\ \A i \in (n + 1)..Len(res) :
                       /\ ~TitleFound(res[i].Title, current)
                       /\ res[i] \in {extra[j] : j \in DOMAIN extra}
                 /\ \A i, j \in (n + 1)..Len(res) :
                       i < j => \E k, l \in DOMAIN extra :
                                   k < l /\ extra[k] = res[i] /\ extra[l] = res[j]

\* C23, as stated: the result has exactly one rule for every title of perms or
\* of extraPermissions; for a title of both it has the verbs and the values of
\* the two rules, otherwise it is the rule as it was given.
C23_MergeLosesNoRule ==
    \A h \in Procs :
       pop[h] = "MergeExtraPermissions"
          => LET current == parg[h].set
                 extra == parg[h].extra
                 res == pret[h].list
             IN  /\ {res[i].Title : i \in DOMAIN res}
                       = {current[i].Title : i \in DOMAIN current}
                            \cup {extra[i].Title : i \in DOMAIN extra}
                 /\ \A i, j \in DOMAIN res : res[i].Title = res[j].Title => i = j
                 /\ \A i \in DOMAIN res :
                       LET title == res[i].Title IN
                       IF TitleFound(title, current) /\ TitleFound(title, extra)
                       THEN /\ res[i].Type = RuleOf(current, title).Type
                            /\ res[i].Verbs = RuleOf(current, title).Verbs
                                                 \cup RuleOf(extra, title).Verbs
                            /\ res[i].Values = RuleOf(current, title).Values
                                                  \cup RuleOf(extra, title).Values
                       ELSE IF TitleFound(title, current)
                       THEN res[i] = RuleOf(current, title)
                       ELSE res[i] = RuleOf(extra, title)

\* C24: the merge of a set with itself has the rules of the set: the same
\* titles, and under each title the same type, verbs and values.
C24_MergeIdempotent ==
    \A h \in Procs :
       (pop[h] = "MergeExtraPermissions" /\ parg[h].set = parg[h].extra)
          => /\ Len(pret[h].list) = Len(parg[h].set)
             /\ {pret[h].list[i] : i \in DOMAIN pret[h].list}
                   = {parg[h].set[i] : i \in DOMAIN parg[h].set}

\* a set of two rules was merged with itself
C24_Witness ==
    /\ pop["p1"] = "MergeExtraPermissions"
    /\ parg["p1"].set = parg["p1"].extra
    /\ Len(parg["p1"].set) = 2
    /\ Len(pret["p1"].list) = 2

\* ---- the properties of Revoke ----
\* C25: a Revoke that returns no error has deleted the document; a Revoke of a
\* document that is gone returns an error, the not-found error when the store
\* answers, and leaves the store as it is.
C25_RevokeTwice ==
    [][\A h \in Procs, fail \in BOOLEAN :
         Revoke(h, fail)
            => LET p == pret[h].perm
                   gone == ~\E d \in perms : d.PID = p.PID
               IN  /\ pret'[h].err = NilError
                         => (~gone /\ perms' = {d \in perms : d.PID # p.PID})
                   /\ gone => /\ pret'[h].err # NilError
                              /\ ~fail => pret'[h].err.code = 404
                              /\ perms' = perms]_vars

\* a document was revoked, and a second Revoke of it has returned not found
C25_Witness ==
    /\ pop["p1"] = "Revoke"
    /\ pret["p1"].err = NotFoundError
    /\ \A d \in perms : d.PID # pret["p1"].perm.PID
    /\ nextPID > pret["p1"].perm.PID

\* ---- the properties of the verbs by id ----
\* the rules of the sharings by link that name the id for the doctype
RulesForID(doctype, id) ==
    {r \in UNION {{d.Permissions[i] : i \in DOMAIN d.Permissions} :
                     d \in {e \in perms : e.Type = TypeShareByLink}} :
        r.Type = doctype /\ id \in r.Values}

\* C26: GetPermissionsForIDs has an entry for exactly the requested ids that
\* have a row, and the entry grants the verbs of all the rows of the id.
C26_VerbSetsUnioned ==
    [][\A h \in Procs, doctype \in {Contacts, Files}, ids \in IDLists :
         GetPermissionsForIDs(h, doctype, ids, FALSE)
            => LET result == pret'[h].list
                   asked == {ids[i] : i \in DOMAIN ids}
               IN  /\ DOMAIN result = {id \in asked : RulesForID(doctype, id) # {}}
                   /\ \A id \in DOMAIN result :
                         Grants(result[id])
                            = UNION {Grants(r.Verbs) : r \in RulesForID(doctype, id)}]_vars

\* the verbs of an id that two rows name with different verbs were returned
C26_Witness ==
    /\ pop["p1"] = "GetPermissionsForIDs"
    /\ pret["p1"].err = NilError
    /\ \E id \in DOMAIN pret["p1"].list :
          /\ Cardinality({r.Verbs : r \in RulesForID(parg["p1"].doctype, id)}) >= 2
          /\ \A r \in RulesForID(parg["p1"].doctype, id) :
                Grants(r.Verbs) # Grants(pret["p1"].list[id])

\* a set without rule on files
NoFileRule(set) == \A i \in DOMAIN set : set[i].Type # Files

\* C27: Set.IsSubSetOf is transitive on the sets without rule on files: when a
\* is a subset of b and b a subset of c, a is a subset of c
C27_SubSetTransitive ==
    \A h \in Procs :
        (/\ pop[h] = "IsSubSetOf"
         /\ ppc[h] = "idle"
         /\ pret[h] # NoPResult
         /\ NoFileRule(parg[h].set)
         /\ NoFileRule(parg[h].parent)
         /\ NoFileRule(parg[h].extra)
         /\ pret[h].list[1]
         /\ pret[h].list[2])
        => pret[h].list[3]

\* handler h has returned from CreateShareSet, called with a parent of an
\* allowed type and a set that is not a subset of the parent's
RefusedNotSubset(h) ==
    /\ pop[h] = "CreateShareSet"
    /\ ppc[h] = "idle"
    /\ pret[h] # NoPResult
    /\ parg[h].parent.Type \in {TypeWebapp, TypeKonnector, TypeOauth, TypeCLI}
    /\ ~IsSubSetOf(parg[h].set, parg[h].parent.Permissions)

\* C28: two requests refused because the set is not a subset of the parent's
\* get the same error, whatever the rules of the two parents and whichever
\* rule of the set is not within them
C28_SameRefusal ==
    \A h1 \in Procs, h2 \in Procs :
        RefusedNotSubset(h1) /\ RefusedNotSubset(h2)
        => /\ pret[h1].err = pret[h2].err
           /\ pret[h1].err # NilError
           /\ pret[h1].perm = NoPermission

\* one set refused under two parents with different rules, a different rule
\* of the set being outside each of them
C28_Witness ==
    /\ RefusedNotSubset("p1")
    /\ RefusedNotSubset("p2")
    /\ parg["p1"].set = parg["p2"].set
    /\ parg["p1"].parent.Permissions # parg["p2"].parent.Permissions
    /\ \E i \in DOMAIN parg["p1"].set :
          /\ IsSubSetOf(<<parg["p1"].set[i]>>, parg["p1"].parent.Permissions)
          /\ ~IsSubSetOf(<<parg["p2"].set[i]>>, parg["p2"].parent.Permissions)

\* what one query by source gives on the store as it is: not found, expired,
\* or a document of that type and source that is not expired
OneQueryGives(typ, docType, slug, r) ==
    LET docs == {d \in perms : d.Type = typ /\ d.SourceID = docType \o "/" \o slug}
    IN  IF docs = {} THEN r.err = NotFoundError /\ r.perm = NoPermission
        ELSE \/ r.err = ErrExpiredToken /\ r.perm = NoPermission
                  /\ \E d \in docs : Expired(d, now)
             \/ r.err = NilError /\ r.perm \in docs /\ ~Expired(r.perm, now)

\* the lookups by source of the requests
LookupArgs ==
    {<<"GetForSharePreview", TypeSharePreview, Sharings, "s1">>,
     <<"GetForWebapp", TypeWebapp, Apps, "drive">>}

\* C31: a lookup by source asks the index at most twice: the second query is
\* made only when the first has failed, the store's error is returned only when
\* both have failed, and after a failed first query the result is what the
\* second query gives on the store of that moment; the other operations
\* return the store's error of a failed call without asking again.
C31_OneRetry ==
    [][\A h \in Procs :
         /\ \A a \in LookupArgs, fail \in BOOLEAN :
               getFromSourceQuery(h, a[1], a[2], a[3], a[4], fail)
               => IF fail
                  THEN ppc'[h] = "getFromSourceRetry" /\ pret'[h] = NoPResult
                  ELSE /\ ppc'[h] = "idle"
                       /\ OneQueryGives(a[2], a[3], a[4], pret'[h])
         /\ \A fail \in BOOLEAN :
               getFromSourceRetry(h, fail)
               => /\ ppc'[h] = "idle"
                  /\ IF fail
                     THEN pret'[h].err = StoreError /\ pret'[h].perm = NoPermission
                     ELSE OneQueryGives(parg[h].typ, parg[h].docType, parg[h].slug,
                                        pret'[h])
         /\ (ppc[h] = "idle" /\ ppc'[h] = "idle" /\ pret'[h] # pret[h]
               /\ pop'[h] \in {a[1] : a \in LookupArgs})
               => pret'[h].err # StoreError
         /\ \A id \in PIDs : GetByID(h, id, TRUE)
               => (ppc'[h] = "idle" /\ pret'[h].err = StoreError)
         /\ Revoke(h, TRUE) => (ppc'[h] = "idle" /\ pret'[h].err = StoreError)
         /\ \A i \in DOMAIN CodePairs :
               CreateSharePreviewSet(h, "s1", CodePairs[i][1], CodePairs[i][2],
                                     <<contactsRule>>, TRUE)
               => (ppc'[h] = "idle" /\ pret'[h].err = StoreError /\ perms' = perms)
         /\ New(h, NormalRun, "", TRUE)
               => (pc'[h] = "idle" /\ ret'[h].err = "ErrStore" /\ store' = store)
         /\ \A id \in IDs : Get(h, id, TRUE)
               => (pc'[h] = "idle" /\ ret'[h].err = "ErrStore")]_vars

\* C31, witness: the first query of a lookup has failed and the handler is
\* about to ask again, for a source that has a document that is not expired
C31_Witness ==
    \E h \in Procs :
        /\ pop[h] = "GetForSharePreview"
        /\ ppc[h] = "getFromSourceRetry"
        /\ \E d \in perms : /\ d.Type = parg[h].typ
                             /\ d.SourceID = parg[h].docType \o "/" \o parg[h].slug
                             /\ ~Expired(d, now)

\* C32: Expired is false only for an absent ExpiresAt and for an RFC3339
\* string of a time that is not before now; it is true for an RFC3339 time
\* before now and for every other value: GetByID returns a stored document
\* in the first case and ErrExpiredToken in the second.
C32_ExpiredFailClosed ==
    [][\A h \in Procs, id \in PIDs :
         (GetByID(h, id, FALSE) /\ \E d \in perms : d.PID = id)
         => LET d == CHOOSE d \in perms : d.PID = id
                valid == \/ d.ExpiresAt = NoExpiry
                         \/ /\ d.ExpiresAt.kind = "RFC3339"
                            /\ d.ExpiresAt.at >= now
            IN  /\ Expired(d, now) = ~valid
                /\ IF valid
                   THEN pret'[h].err = NilError /\ pret'[h].perm = d
                   ELSE /\ pret'[h].err = ErrExpiredToken
                        /\ pret'[h].perm = NoPermission]_vars

\* C32, witness: GetByID has refused, as expired, a stored document whose
\* ExpiresAt is not the string of a time
C32_Witness ==
    /\ pop["p1"] = "GetByID"
    /\ pret["p1"].err = ErrExpiredToken
    /\ perms # {}
    /\ \A d \in perms : d.ExpiresAt.kind \notin {"nil", "RFC3339"}

\* C33: RemoveRule leaves the rules whose title is not that of the rule, in
\* their order, and leaves the set as it is when no rule has that title;
\* AddRules leaves the rules of the document followed by the given ones.
C33_RulesAddedAndRemoved ==
    \A h \in Procs :
        /\ (pop[h] = "RemoveRule" /\ pret[h] # NoPResult)
             => LET title == parg[h].extra[1].Title
                    KeepsTitle(r) == r.Title # title
                IN  /\ pret[h].list = SelectSeq(parg[h].set, KeepsTitle)
                    /\ (\A i \in DOMAIN parg[h].set : parg[h].set[i].Title # title)
                          => pret[h].list = parg[h].set
        /\ (pop[h] = "AddRules" /\ pret[h] # NoPResult)
             => /\ Len(pret[h].list) = Len(parg[h].set) + Len(parg[h].extra)
                /\ SubSeq(pret[h].list, 1, Len(parg[h].set)) = parg[h].set
                /\ SubSeq(pret[h].list, Len(parg[h].set) + 1, Len(pret[h].list))
                     = parg[h].extra

\* C33, witness: RemoveRule has taken two rules of one title out of a set and
\* left the rule between them
C33_Witness ==
    /\ pop["p1"] = "RemoveRule"
    /\ pret["p1"] # NoPResult
    /\ Len(parg["p1"].set) = 3
    /\ Len(pret["p1"].list) = 1
    /\ pret["p1"].list[1] = parg["p1"].set[2]

\* C34: p.CanUpdateShareByLink(child) is true exactly when child is a sharing
\* by link, p is the document of a web application or of an OAuth client, and
\* child has the source of p or a set within that of p; it is false for a p of
\* any other type and for a child of any other type.
C34_CanUpdateShareByLink ==
    \A h \in Procs :
        (pop[h] = "CanUpdateShareByLink" /\ pret[h] # NoPResult)
        => LET p == parg[h].parent
               child == parg[h].existing
               allowed == /\ child.Type = "share"
                          /\ p.Type \in {"app", "oauth"}
                          /\ \/ child.SourceID = p.SourceID
                             \/ IsSubSetOf(child.Permissions, p.Permissions)
           IN  /\ pret[h].list[1] = allowed
               /\ p.Type \in {"konnector", "cli", "register", "share"}
                     => ~pret[h].list[1]

\* C34, witness: the document of an OAuth client can update a sharing by link
\* of another source because the set of the sharing is within its own
C34_Witness ==
    /\ pop["p1"] = "CanUpdateShareByLink"
    /\ pret["p1"] # NoPResult
    /\ pret["p1"].list[1]
    /\ parg["p1"].parent.Type = TypeOauth
    /\ parg["p1"].existing.SourceID # parg["p1"].parent.SourceID

\* the session of that ID has been created and is no longer stored
Gone(id) == id < nextID /\ ~\E d \in store : d.DocID = id

\* C35: a session that has been deleted is never stored again under its ID,
\* also when a Get that had fetched it before the deletion comes to its update
\* of LastSeen afterwards.
C35_DeletedStaysDeleted ==
    [][\A id \in IDs : Gone(id) => Gone(id)']_vars

\* C35, witness: a Get has fetched a session, the session has been deleted
\* since, and the Get holds the lock and is about to update LastSeen
C35_Witness ==
    \E p \in Procs :
        /\ pc[p] = "GetRefreshUpdate"
        /\ s[p] # NoSession
        /\ Gone(s[p].DocID)

\* handler p waits for the lock of the session it has fetched
WaitsForLock(p) == pc[p] \in {"GetExpireLock", "GetRefreshLock"}

C37_EmptySIDDeletesNothing ==
    [][/\ \A p \in Procs :
             (pc[p] = "DeleteBySIDLoop" /\ sidarg[p] = "") => store' = store
       /\ \A d \in store :
             (d.SID = "" /\ \E p \in Procs : pc[p] = "DeleteBySIDLoop") => d \in store']_vars

UpdateOps == {"UpdateWebappSet", "UpdateKonnectorSet"}

ForceOps == {"ForceWebapp", "ForceKonnector"}

\* the lookup of a source, the store answering, gives a document of that set
FoundWith(typ, docType, slug, set) ==
    LET r == getFromSource(typ, docType, slug, FALSE, FALSE) IN
    r.err = NilError /\ r.perm.Permissions = set

\* C40: when ForceWebapp or ForceKonnector returns nil, a lookup of the
\* source that follows gives a document with the given set; when a document
\* of the source that has not expired was there, the store holds the same ids
\* as before (the document was updated in place), otherwise it holds exactly
\* one document more.
C40_ForceInPlace ==
    [][\A h \in Procs :
         ( /\ pop'[h] \in ForceOps
           /\ ppc[h] \in {"forceCreate", "forceUpdate"}
           /\ ppc'[h] = "idle"
           /\ pret'[h].err = NilError )
         => /\ IF \E d \in perms : /\ d.Type = parg[h].typ
                                   /\ d.SourceID = parg[h].docType \o "/" \o parg[h].slug
                                   /\ ~Expired(d, now)
               THEN {d.PID : d \in perms'} = {d.PID : d \in perms}
               ELSE /\ perms \subseteq perms'
                    /\ Cardinality(perms') = Cardinality(perms) + 1
            /\ \E typ \in AppTypes, docType \in {Apps, Konnectors},
                  slug \in Slugs, set \in AppSets :
                  /\ <<typ, docType, slug, set>> =
                        <<parg[h].typ, parg[h].docType, parg[h].slug, parg[h].set>>
                  /\ FoundWith(typ, docType, slug, set)']_vars

DestroyOps == {"DestroyWebapp", "DestroyKonnector"}
DestroySlugs == {"drive", "notes"}

\* the lookup of a source, the store answering, finds no document
NotFoundAfter(typ, docType, slug) ==
    getFromSource(typ, docType, slug, FALSE, FALSE).err = NotFoundError

\* C39: DestroyWebapp and DestroyKonnector delete documents of their type and
\* of the source of their slug only, one at a time and in the order of the
\* query; a failed query or delete ends the call with that error and deletes
\* nothing more; when the call returns nil no document of the type and source
\* is left, and a lookup of the source that follows gives not-found.
C39_DestroyApp ==
    [][\A h \in Procs :
         /\ (pop'[h] \in DestroyOps /\ <<ppc[h], pret[h]>> # <<ppc'[h], pret'[h]>>)
            => /\ perms' \subseteq perms
               /\ nextPID' = nextPID
               /\ ppc[h] = "idle"
                     => /\ perms' = perms
                        /\ ppc'[h] = "idle" => pret'[h].err = StoreError
               /\ ppc[h] = "destroyApp"
                     => /\ parg[h].typ = (IF pop[h] = "DestroyWebapp"
                                          THEN TypeWebapp ELSE TypeKonnector)
                        /\ parg[h].docType = (IF pop[h] = "DestroyWebapp"
                                              THEN Apps ELSE Konnectors)
                        /\ \A d \in perms \ perms' :
                              /\ d.Type = parg[h].typ
                              /\ d.SourceID = parg[h].docType \o "/" \o parg[h].slug
                              /\ d = Head(pret[h].list)
                              /\ pret'[h].err = NilError
                        /\ ppc'[h] = "idle"
                              => \/ /\ pret'[h].err = StoreError
                                    /\ perms' = perms
                                    /\ pret[h].list # <<>>
                                 \/ /\ pret'[h].err = NilError
                                    /\ \A d \in perms' :
                                          ~ /\ d.Type = parg[h].typ
                                            /\ d.SourceID = parg[h].docType
                                                             \o "/" \o parg[h].slug
                                    /\ \E slug \in DestroySlugs :
                                          /\ slug = parg[h].slug
                                          /\ \E typ \in {TypeWebapp, TypeKonnector} :
                                                /\ typ = parg[h].typ
                                                /\ \E docType \in {Apps, Konnectors} :
                                                      /\ docType = parg[h].docType
                                                      /\ NotFoundAfter(typ, docType, slug)'
         /\ \A slug \in DestroySlugs :
              /\ (GetForWebapp(h, slug, FALSE, FALSE) /\ NotFoundAfter(TypeWebapp, Apps, slug))
                 => pret'[h].err = NotFoundError /\ pret'[h].perm = NoPermission
              /\ (GetForKonnector(h, slug, FALSE, FALSE)
                    /\ NotFoundAfter(TypeKonnector, Konnectors, slug))
                 => pret'[h].err = NotFoundError /\ pret'[h].perm = NoPermission]_vars

\* C39, witness: DestroyWebapp has returned nil after it deleted the two
\* documents of its source, and has left the document of the other slug
C39_Witness ==
    /\ pop["p1"] = "DestroyWebapp"
    /\ ppc["p1"] = "idle"
    /\ pret["p1"].err = NilError
    /\ nextPID > MaxIDs
    /\ Cardinality(perms) = 1
    /\ \A d \in perms : d.Type = TypeWebapp

\* ---- specifications ----
\* the steps of a call that is under way
Steps(p) ==
    \/ GetExpireLock(p)
    \/ \E fail \in BOOLEAN : GetExpireDelete(p, fail)
    \/ GetExpireReturn(p)
    \/ GetRefreshLock(p)
    \/ \E fail \in BOOLEAN : GetRefreshUpdate(p, fail)
    \/ GetRefreshReturn(p)

\* one handler: the life of the sessions of an instance
Next ==
    \/ \E t \in Instants : Tick(t)
    \/ \E duration \in Durations, fail \in BOOLEAN : New("p1", duration, "", fail)
    \/ \E id \in IDs, fail \in BOOLEAN : Get("p1", id, fail)
    \/ Steps("p1")
    \/ \E fail \in BOOLEAN : GetAll("p1", fail)
    \/ \E fail \in BOOLEAN : GetAllBulkDelete("p1", fail)
    \/ \E fail \in BOOLEAN : Delete("p1", fail)
    \/ \E id \in 0..MaxIDs, fail \in BOOLEAN : DeleteOthers("p1", id, fail)
    \/ \E fail \in BOOLEAN : DeleteOthersLoop("p1", fail)
    \/ DeleteOthersReturn("p1")
    \/ \E sid \in SIDs, fail \in BOOLEAN : DeleteBySID("p1", sid, fail)
    \/ \E fail \in BOOLEAN : DeleteBySIDLoop("p1", fail)
    \/ DeleteBySIDReturn("p1")

Spec == Init /\ [][Next]_vars

\* one handler and its client: the cookie protocol
NextCookie ==
    \/ \E t \in Instants : Tick(t)
    \/ \E duration \in Durations, fail \in BOOLEAN : New("p1", duration, "", fail)
    \/ ToCookie("p1")
    \/ \E c \in ClientCookies : Tamper("p1", c)
    \/ \E fail \in BOOLEAN : FromCookie("p1", fail)
    \/ Steps("p1")
    \/ \E fail \in BOOLEAN : Delete("p1", fail)

SpecCookie == Init /\ [][NextCookie]_vars

\* one handler of the OIDC back-channel logout: sessions are opened with and
\* without an external identifier, and closed by identifier
NextSID ==
    \/ \E sid \in SIDs, fail \in BOOLEAN : New("p1", NormalRun, sid, fail)
    \/ \E sid \in SIDs, fail \in BOOLEAN : DeleteBySID("p1", sid, fail)
    \/ \E fail \in BOOLEAN : DeleteBySIDLoop("p1", fail)
    \/ DeleteBySIDReturn("p1")

SpecSID == Init /\ [][NextSID]_vars

\* the steps of a permission call that is under way
PermSteps(h) ==
    \/ \E fail \in BOOLEAN : createAppSet(h, fail)
    \/ \E fail \in BOOLEAN : ForceCreate(h, fail)
    \/ \E fail \in BOOLEAN : ForceUpdate(h, fail)
    \/ \E fail \in BOOLEAN : updateAppSet(h, fail)
    \/ \E fail \in BOOLEAN : DestroyAppLoop(h, fail)
    \/ DestroyAppReturn(h)

\* one handler: applications and konnectors of two slugs are installed,
\* looked up and destroyed
NextDestroy ==
    \/ \E slug \in DestroySlugs, set \in {<<contactsRule>>}, f \in FailPairs :
          \/ CreateWebappSet("p1", slug, set, f[1], f[2])
          \/ CreateKonnectorSet("p1", slug, set, f[1], f[2])
          \/ ForceWebapp("p1", slug, set, f[1], f[2])
    \/ \E slug \in DestroySlugs :
          \/ GetForWebapp("p1", slug, FALSE, FALSE)
          \/ GetForKonnector("p1", slug, FALSE, FALSE)
    \/ \E slug \in DestroySlugs, fail \in BOOLEAN :
          \/ DestroyWebapp("p1", slug, fail)
          \/ DestroyKonnector("p1", slug, fail)
    \/ \E fail \in BOOLEAN : createAppSet("p1", fail)
    \/ \E fail \in BOOLEAN : ForceCreate("p1", fail)
    \/ \E fail \in BOOLEAN : ForceUpdate("p1", fail)
    \/ \E fail \in BOOLEAN : DestroyAppLoop("p1", fail)
    \/ DestroyAppReturn("p1")

SpecDestroy == Init /\ [][NextDestroy]_vars

\* one handler: the permissions of the applications and of the konnectors
NextApp ==
    \/ \E slug \in Slugs, set \in AppSets, f \in FailPairs :
          \/ CreateWebappSet("p1", slug, set, f[1], f[2])
          \/ CreateKonnectorSet("p1", slug, set, f[1], f[2])
          \/ ForceWebapp("p1", slug, set, f[1], f[2])
          \/ ForceKonnector("p1", slug, set, f[1], f[2])
          \/ UpdateWebappSet("p1", slug, set, f[1], f[2])
          \/ UpdateKonnectorSet("p1", slug, set, f[1], f[2])
    \/ \E slug \in Slugs, f \in FailPairs :
          \/ GetForWebapp("p1", slug, f[1], f[2])
          \/ GetForKonnector("p1", slug, f[1], f[2])
    \/ \E slug \in Slugs, fail \in BOOLEAN :
          \/ DestroyWebapp("p1", slug, fail)
          \/ DestroyKonnector("p1", slug, fail)
    \/ PermSteps("p1")

SpecApp == Init /\ [][NextApp]_vars

\* two handlers install applications at the same time, with an index that
\* answers their lookups
NextAppConc ==
    \/ \E h \in Procs, slug \in Slugs, set \in AppSets :
          \/ CreateWebappSet(h, slug, set, FALSE, FALSE)
          \/ CreateKonnectorSet(h, slug, set, FALSE, FALSE)
    \/ \E h \in Procs, fail \in BOOLEAN : createAppSet(h, fail)
    \/ \E h \in Procs, slug \in Slugs, f \in FailPairs :
          GetForWebapp(h, slug, f[1], f[2])

SpecAppConc == Init /\ [][NextAppConc]_vars

\* one handler creates the permissions of the sharings and patches their codes
NextShare ==
    \/ \E typ \in PermTypes, set \in ShareSets, fail \in BOOLEAN :
          CreateShareSet("p1", ParentOf(typ), Apps \o "/drive", CodePairs[1][1],
                         CodePairs[1][2], set, NoExpiry, fail)
    \/ \E typ \in {TypeWebapp}, i \in DOMAIN CodePairs, fail \in BOOLEAN :
          CreateShareSet("p1", ParentOf(typ), Apps \o "/drive", CodePairs[i][1],
                         CodePairs[i][2], <<contactsRule>>, NoExpiry, fail)
    \/ \E id \in SharingIDs, i \in DOMAIN CodePairs, fail \in BOOLEAN :
          \/ CreateSharePreviewSet("p1", id, CodePairs[i][1], CodePairs[i][2],
                                   <<contactsRule>>, fail)
          \/ CreateShareInteractSet("p1", id, CodePairs[i][1], <<contactsRule>>, fail)
    \/ \E codes \in CodeMaps : PatchCodesCall("p1", codes)
    \/ \E id \in PIDs, fail \in BOOLEAN : GetByID("p1", id, fail)

SpecShare == Init /\ [][NextShare]_vars

\* one handler creates sharings by link and looks permissions up while time
\* passes
NextLookup ==
    \/ \E t \in Instants : Tick(t)
    \/ \E typ \in {TypeWebapp}, codes \in CodeMaps \ {NilMap},
          shortcodes \in ShortcodeMaps, expiresAt \in Expiries, fail \in BOOLEAN :
          CreateShareSet("p1", ParentOf(typ), Apps \o "/drive", codes, shortcodes,
                         <<contactsRule>>, expiresAt, fail)
    \/ \E id \in PIDs, fail \in BOOLEAN : GetByID("p1", id, fail)
    \/ \E key \in Tokens, fail \in BOOLEAN, sourceGone \in BOOLEAN :
          GetForShareCode("p1", key, fail, sourceGone)
    \/ \E key \in Shorts, fail \in BOOLEAN :
          GetTokenAndPermissionsFromShortcode("p1", key, fail)
    \/ \E doctype \in {Contacts, Files}, fail \in BOOLEAN :
          GetPermissionsByDoctype("p1", TypeShareByLink, doctype, fail)

SpecLookup == Init /\ [][NextLookup]_vars

\* one handler merges sets
NextMerge ==
    \E perms0 \in MergeSets, extra \in MergeSets, failing \in {{}, {"contacts"}} :
       MergeExtraPermissionsCall("p1", perms0, extra, failing)

SpecMerge == Init /\ [][NextMerge]_vars

\* two handlers ask for sharings by link under different parents
NextRefuse ==
    \E h \in Procs, parent \in RefuseParents, set \in RefuseSets, fail \in BOOLEAN :
       CreateShareSet(h, parent, Apps \o "/drive", NilMap, NilMap, set, NoExpiry, fail)

SpecRefuse == Init /\ [][NextRefuse]_vars

\* two handlers look documents up by source while the first one creates,
\* fetches and revokes them and opens sessions
NextRetry ==
    \/ \E h \in Procs, a \in LookupArgs, fail \in BOOLEAN :
          getFromSourceQuery(h, a[1], a[2], a[3], a[4], fail)
    \/ \E h \in Procs, fail \in BOOLEAN : getFromSourceRetry(h, fail)
    \/ \E i \in {1}, fail \in BOOLEAN :
          CreateSharePreviewSet("p1", "s1", CodePairs[i][1], CodePairs[i][2],
                                <<contactsRule>>, fail)
    \/ \E id \in PIDs, fail \in BOOLEAN : GetByID("p1", id, fail)
    \/ \E fail \in BOOLEAN : Revoke("p1", fail)
    \/ \E fail \in BOOLEAN : New("p1", NormalRun, "", fail)
    \/ \E id \in IDs, fail \in BOOLEAN : Get("p1", id, fail)

SpecRetry == Init /\ [][NextRetry]_vars

\* one handler creates sharings by link with every kind of ExpiresAt and
\* fetches them as time passes
NextExpiry ==
    \/ \E t \in Instants : Tick(t)
    \/ \E typ \in {TypeWebapp}, expiresAt \in ExpiryValues, fail \in BOOLEAN :
          CreateShareSet("p1", ParentOf(typ), Apps \o "/drive", NilMap, NilMap,
                         <<contactsRule>>, expiresAt, fail)
    \/ \E id \in PIDs, fail \in BOOLEAN : GetByID("p1", id, fail)

SpecExpiry == Init /\ [][NextExpiry]_vars

\* one handler adds rules to sets and removes rules from them
NextRules ==
    \/ \E permissions \in RuleSets, rule \in MergeRules :
          RemoveRuleCall("p1", permissions, rule)
    \/ \E permissions \in RuleSets, rules \in {<<>>, <<contactsWrite>>,
                                                <<filesRule, contactsRule>>} :
          AddRulesCall("p1", permissions, rules)

SpecRules == Init /\ [][NextRules]_vars

\* one handler asks which documents can update which
NextCanUpdate ==
    \E p \in Updaters, child \in Children : CanUpdateShareByLinkCall("p1", p, child)

SpecCanUpdate == Init /\ [][NextCanUpdate]_vars

\* two handlers at the same time: both resolve sessions, the first one also
\* opens them, the second one also deletes the session it holds
NextGone ==
    \/ \E t \in Instants : Tick(t)
    \/ New("p1", NormalRun, "", FALSE)
    \/ \E p \in Procs, id \in IDs, fail \in BOOLEAN : Get(p, id, fail)
    \/ \E p \in Procs : Steps(p)
    \/ \E fail \in BOOLEAN : Delete("p2", fail)

SpecGone == Init /\ [][NextGone]_vars

\* one handler compares sets
NextSubSet ==
    \E a \in SubSets, b \in SubSets, c \in SubSets : IsSubSetOfCall("p1", a, b, c)

SpecSubSet == Init /\ [][NextSubSet]_vars

\* one handler creates sharings by link, fetches them and revokes them
NextRevoke ==
    \/ \E typ \in {TypeWebapp}, i \in DOMAIN CodePairs, fail \in BOOLEAN :
          CreateShareSet("p1", ParentOf(typ), Apps \o "/drive", CodePairs[i][1],
                         CodePairs[i][2], <<contactsRule>>, NoExpiry, fail)
    \/ \E id \in PIDs, fail \in BOOLEAN : GetByID("p1", id, fail)
    \/ \E fail \in BOOLEAN : Revoke("p1", fail)

SpecRevoke == Init /\ [][NextRevoke]_vars

\* one handler shares documents by link and asks for the verbs on them
NextForIDs ==
    \/ \E typ \in {TypeWebapp}, set \in ByIDSets, fail \in BOOLEAN :
          CreateShareSet("p1", FullParent(typ), Apps \o "/drive", NilMap, NilMap, set,
                         NoExpiry, fail)
    \/ \E doctype \in {Contacts, Files}, ids \in IDLists, fail \in BOOLEAN :
          GetPermissionsForIDs("p1", doctype, ids, fail)

SpecForIDs == Init /\ [][NextForIDs]_vars

\* two handlers at the same time: both resolve sessions, the first one also
\* opens them
NextConc ==
    \/ \E t \in Instants : Tick(t)
    \/ New("p1", NormalRun, "", FALSE)
    \/ \E p \in Procs, id \in IDs, fail \in BOOLEAN : Get(p, id, fail)
    \/ \E p \in Procs : Steps(p)

SpecConc == Init /\ [][NextConc]_vars

\* the same with the scheduling of the handlers: a call under way goes on, and
\* a handler that waits for a lock gets it when the lock keeps coming free
SpecConcFair ==
    /\ SpecConc
    /\ \A p \in Procs : WF_vars(Steps(p))
    /\ \A p \in Procs : SF_vars(GetExpireLock(p) \/ GetRefreshLock(p))
====
